---- MODULE Spec2Model ----
(***************************************************************************)
(* Manual / partial workflow execution orchestration of                    *)
(* WorkflowExecutionService: executeWorkflow, buildExecutionPayload,       *)
(* executeManually, selectPinnedActivatorStarter, findAllPinnedActivators. *)
(***************************************************************************)
EXTENDS Integers, Sequences, FiniteSets, TLC

\* ------------------------------------------------------------------------
\* Bounds of the model
\* ------------------------------------------------------------------------

\* Largest number of nodes of the stored workflow in the orchestrator runs.
MaxNodes == 2

\* Largest number of nodes of a workflow handed to the activator selector.
MaxGraphNodes == 3

\* ------------------------------------------------------------------------
\* JavaScript values
\* ------------------------------------------------------------------------

\* An optional value: undefined / null is the empty tuple, a defined value v
\* is the one-element tuple <<v>>.
None == <<>>
Some(v) == <<v>>
Val(o) == o[1]

\* JavaScript truthiness of an optional string: defined and not "".
TruthyStr(o) == o # None /\ Val(o) # ""

UpperChars == "ABCDEFGHIJKLMNOPQRSTUVWXYZ"
LowerChars == "abcdefghijklmnopqrstuvwxyz"

toLowerChar(c) ==
    IF \E i \in 1..Len(UpperChars) : SubSeq(UpperChars, i, i) = c
    THEN LET i == CHOOSE j \in 1..Len(UpperChars) : SubSeq(UpperChars, j, j) = c
         IN SubSeq(LowerChars, i, i)
    ELSE c

RECURSIVE toLowerCase(_)
toLowerCase(s) ==
    IF Len(s) = 0 THEN ""
    ELSE toLowerChar(SubSeq(s, 1, 1)) \o toLowerCase(SubSeq(s, 2, Len(s)))

endsWith(s, suffix) ==
    /\ Len(s) >= Len(suffix)
    /\ SubSeq(s, Len(s) - Len(suffix) + 1, Len(s)) = suffix

includes(s, sub) ==
    \E i \in 1..(Len(s) - Len(sub) + 1) : SubSeq(s, i, i + Len(sub) - 1) = sub

\* Array.prototype.find: the first element satisfying Test, or undefined.
find(arr, Test(_)) ==
    LET hits == SelectSeq(arr, Test)
    IN IF Len(hits) = 0 THEN None ELSE Some(Head(hits))

\* ------------------------------------------------------------------------
\* Node types and the node type registry
\* ------------------------------------------------------------------------

ManualTriggerType == "n8n-nodes-base.manualTrigger"
WebhookType == "n8n-nodes-base.webhook"
ScheduleTriggerType == "n8n-nodes-base.scheduleTrigger"
SetType == "n8n-nodes-base.set"
RespondToWebhookType == "n8n-nodes-base.respondToWebhook"
\* A community node whose type name ends in "Webhook" with a capital W.
CustomWebhookType == "n8n-nodes-custom.stripeWebhook"

\* Node types of the stored workflows of the orchestrator runs.
NodeTypeNames ==
    {ManualTriggerType, WebhookType, ScheduleTriggerType, SetType, RespondToWebhookType}

\* Node types of the workflows handed to the activator selector.
GraphTypeNames ==
    {WebhookType, CustomWebhookType, ScheduleTriggerType, SetType, RespondToWebhookType}

\* nodeTypes.getByNameAndVersion(type).description.group.includes('trigger')
TriggerGroupTypes ==
    {ManualTriggerType, WebhookType, ScheduleTriggerType, CustomWebhookType}

\* The lower-cased type name of every node type, computed once.
LowerTypeName ==
    [t \in NodeTypeNames \cup GraphTypeNames |-> toLowerCase(t)]

\* ------------------------------------------------------------------------
\* Workflows
\* ------------------------------------------------------------------------

\* The name of the i-th node of a workflow.
NodeNameAt == <<"A", "B", "C", "D", "E">>

WorkflowId == "wf1"
MissingWorkflowId == "wf404"

\* The pin entry a user saved on a node before the request.
SavedPin == <<[json |-> "saved"]>>

\* The pin entry written by the payload builder: [{ json: data }].
PinOf(data) == <<[json |-> data]>>

\* Mutant of PinWith: the existing pin data is not spread into the new object.
PinWith_replacesAll(pinData, name, entry) ==
    [n \in {name} |-> entry]

\* { ...pinData, [name]: entry }
PinWith(pinData, name, entry) ==
    [n \in (DOMAIN pinData) \cup {name} |-> IF n = name THEN entry ELSE pinData[n]]

EmptyPinData == [n \in {} |-> SavedPin]

MkNodes(k, types, disabled) ==
    [i \in 1..k |-> [name |-> NodeNameAt[i], type |-> types[i], disabled |-> i \in disabled]]

MkPinData(pinned) ==
    IF pinned = None THEN None
    ELSE Some([n \in {NodeNameAt[i] : i \in Val(pinned)} |-> SavedPin])

MkWorkflow(k, types, disabled, pinned, edges, active) ==
    [id |-> WorkflowId,
     nodes |-> MkNodes(k, types, disabled),
     connections |-> {<<NodeNameAt[e[1]], NodeNameAt[e[2]]>> : e \in edges},
     pinData |-> MkPinData(pinned),
     active |-> active]

\* The chain 1 -> 2 -> ... -> k.
ChainEdges(k) == {<<i, i + 1>> : i \in 1..(k - 1)}

\* Workflow.getNode(name): the node of that name, or null.
getNode(workflow, nodeName) ==
    find(workflow.nodes, LAMBDA n : n.name = nodeName)

\* The nodes with a connection into one of the nodes of `names`.
DirectParents(workflow, names) ==
    {c[1] : c \in {d \in workflow.connections : d[2] \in names}}

RECURSIVE Ancestors(_, _, _)
Ancestors(workflow, frontier, seen) ==
    LET new == DirectParents(workflow, frontier) \ seen
    IN IF new = {} THEN seen ELSE Ancestors(workflow, new, seen \cup new)

\* Workflow.getParentNodes(nodeName): every node reachable by following
\* connections backward from nodeName; empty for an unknown node.
getParentNodes(workflow, nodeName) ==
    Ancestors(workflow, {nodeName}, {}) \ {nodeName}

\* ------------------------------------------------------------------------
\* Pinned-activator selector
\* ------------------------------------------------------------------------

\* The comparator of findAllPinnedActivators: it looks at its first argument
\* only.
compareActivators(a, b) == IF endsWith(a.type, "webhook") THEN -1 ELSE 1

\* Array.prototype.sort of the engine (TimSort on a short array): the length
\* of the initial run of arr, which is descending when the second element
\* compares below the first.
RECURSIVE runEnd(_, _, _)
runEnd(arr, idx, isDescending) ==
    IF idx > Len(arr) THEN idx - 1
    ELSE LET order == compareActivators(arr[idx], arr[idx - 1])
         IN IF (isDescending /\ order >= 0) \/ (~isDescending /\ order < 0)
            THEN idx - 1
            ELSE runEnd(arr, idx + 1, isDescending)

reverse(arr) == [i \in 1..Len(arr) |-> arr[Len(arr) + 1 - i]]

\* The binary search of the insertion step: where pivot goes in sorted.
RECURSIVE insertionPoint(_, _, _, _)
insertionPoint(sorted, pivot, left, right) ==
    IF left >= right THEN left
    ELSE LET mid == left + ((right - left) \div 2)
         IN IF compareActivators(pivot, sorted[mid]) < 0
            THEN insertionPoint(sorted, pivot, left, mid)
            ELSE insertionPoint(sorted, pivot, mid + 1, right)

RECURSIVE binaryInsertionSort(_, _)
binaryInsertionSort(sorted, rest) ==
    IF Len(rest) = 0 THEN sorted
    ELSE LET pivot == Head(rest)
             at == insertionPoint(sorted, pivot, 1, Len(sorted) + 1)
         IN binaryInsertionSort(
                SubSeq(sorted, 1, at - 1) \o <<pivot>> \o SubSeq(sorted, at, Len(sorted)),
                Tail(rest))

sortActivators(arr) ==
    IF Len(arr) < 2 THEN arr
    ELSE LET isDescending == compareActivators(arr[2], arr[1]) < 0
             runLength == runEnd(arr, 3, isDescending)
             run == SubSeq(arr, 1, runLength)
         IN binaryInsertionSort(IF isDescending THEN reverse(run) ELSE run,
                                SubSeq(arr, runLength + 1, Len(arr)))

\* Mutant of isActivatorNode: respondToWebhook is not excluded.
isActivatorNode_keepsRespond(node) ==
    /\ ~node.disabled
    /\ \E suffix \in {"trigger", "webhook"} : endsWith(LowerTypeName[node.type], suffix)

\* The filter of findAllPinnedActivators without the pin data requirement.
isActivatorNode(node) ==
    /\ ~node.disabled
    /\ \E suffix \in {"trigger", "webhook"} : endsWith(LowerTypeName[node.type], suffix)
    /\ node.type # RespondToWebhookType

findAllPinnedActivators(workflow, pinData) ==
    sortActivators(
        SelectSeq(workflow.nodes,
                  LAMBDA node : /\ pinData # None
                                /\ node.name \in DOMAIN Val(pinData)
                                /\ isActivatorNode(node)))

\* Mutant of selectPinnedActivatorStarter: with a destination node none of whose
\* ancestors is a pinned activator, nothing is returned.
selectPinnedActivatorStarter_noFallback(workflow, startNodes, pinData, destinationNode) ==
    IF pinData = None \/ startNodes = None THEN None
    ELSE LET allPinnedActivators == findAllPinnedActivators(workflow, pinData)
         IN IF Len(allPinnedActivators) = 0 THEN None
            ELSE IF TruthyStr(destinationNode)
            THEN find(allPinnedActivators,
                      LAMBDA a : a.name \in getParentNodes(workflow, Val(destinationNode)))
            ELSE Some(allPinnedActivators[1])

\* Mutant of selectPinnedActivatorStarter: in a partial execution the start
\* node is tried when the first pinned activator is not among its parents.
selectPinnedActivatorStarter_startNodeFallback(workflow, startNodes, pinData, destinationNode) ==
    IF pinData = None \/ startNodes = None THEN None
    ELSE LET allPinnedActivators == findAllPinnedActivators(workflow, pinData)
         IN IF Len(allPinnedActivators) = 0 THEN None
            ELSE IF Len(Val(startNodes)) = 0
            THEN LET destinationParents ==
                         IF TruthyStr(destinationNode)
                         THEN getParentNodes(workflow, Val(destinationNode))
                         ELSE {}
                     activator ==
                         find(allPinnedActivators, LAMBDA a : a.name \in destinationParents)
                 IN IF activator # None THEN activator
                    ELSE Some(allPinnedActivators[1])
            ELSE LET first == allPinnedActivators[1]
                 IN IF first.name \in getParentNodes(workflow, Val(startNodes)[1])
                    THEN Some(first)
                    ELSE find(allPinnedActivators,
                              LAMBDA pa : pa.name = Val(startNodes)[1])

\* Mutant of selectPinnedActivatorStarter: the destination node is ignored.
selectPinnedActivatorStarter_ignoresDestination(workflow, startNodes, pinData, destinationNode) ==
    IF pinData = None \/ startNodes = None THEN None
    ELSE LET allPinnedActivators == findAllPinnedActivators(workflow, pinData)
         IN IF Len(allPinnedActivators) = 0 THEN None
            ELSE Some(allPinnedActivators[1])

selectPinnedActivatorStarter(workflow, startNodes, pinData, destinationNode) ==
    IF pinData = None \/ startNodes = None THEN None
    ELSE LET allPinnedActivators == findAllPinnedActivators(workflow, pinData)
         IN IF Len(allPinnedActivators) = 0 THEN None
            ELSE LET firstPinnedActivator == allPinnedActivators[1]
                 IN IF Len(Val(startNodes)) = 0
                    THEN \* full manual execution
                         LET destinationParents ==
                                 IF TruthyStr(destinationNode)
                                 THEN getParentNodes(workflow, Val(destinationNode))
                                 ELSE {}
                             activator ==
                                 find(allPinnedActivators,
                                      LAMBDA a : a.name \in destinationParents)
                         IN IF activator # None THEN activator
                            ELSE Some(firstPinnedActivator)
                    ELSE \* partial manual execution
                         LET firstStartNodeName == Val(startNodes)[1]
                             parentNodeNames == getParentNodes(workflow, firstStartNodeName)
                         IN IF parentNodeNames # {}
                            THEN IF firstPinnedActivator.name \in parentNodeNames
                                 THEN find(allPinnedActivators,
                                           LAMBDA pa : pa.name = firstPinnedActivator.name)
                                 ELSE None
                            ELSE find(allPinnedActivators,
                                      LAMBDA pa : pa.name = firstStartNodeName)

\* ------------------------------------------------------------------------
\* Execution-payload builder
\* ------------------------------------------------------------------------

\* const payload = { workflowData: workflow }: every other field is unset.
\* workflowData is the workflow object itself and is carried beside the payload.
EmptyPayload ==
    [runData |-> None,
     startNodes |-> None,
     destinationNode |-> None,
     dirtyNodeNames |-> None,
     triggerToStartFrom |-> None]

\* if (options.destinationNode) payload.destinationNode = options.destinationNode
withDestination(payload, options) ==
    IF TruthyStr(options.destinationNode)
    THEN [payload EXCEPT !.destinationNode = options.destinationNode]
    ELSE payload

\* if (previousPinData) payload.workflowData.pinData = previousPinData
withPreviousPinData(workflow, previousPinData) ==
    IF previousPinData # None
    THEN [workflow EXCEPT !.pinData = previousPinData]
    ELSE workflow

\* Mutant of selectStartNode: a webhook is preferred to a manual trigger.
selectStartNode_webhookFirst(activatorNodes) ==
    LET manual == find(activatorNodes, LAMBDA node : node.type = ManualTriggerType)
        webhook == find(activatorNodes,
                        LAMBDA node : includes(LowerTypeName[node.type], "webhook"))
    IN IF webhook # None THEN Val(webhook)
       ELSE IF manual # None THEN Val(manual)
       ELSE activatorNodes[1]

\* activatorNodes.find(manualTrigger) ?? activatorNodes.find(includes webhook)
\* ?? activatorNodes[0]
selectStartNode(activatorNodes) ==
    LET manual == find(activatorNodes, LAMBDA node : node.type = ManualTriggerType)
        webhook == find(activatorNodes,
                        LAMBDA node : includes(LowerTypeName[node.type], "webhook"))
    IN IF manual # None THEN Val(manual)
       ELSE IF webhook # None THEN Val(webhook)
       ELSE activatorNodes[1]

\* The result of the builder: the strategy it logged, the error it threw (or
\* "none"), the payload it returned, and the workflow object as it left it.
BuildResult(strategy, error, payload, workflow) ==
    [strategy |-> strategy, error |-> error, payload |-> payload, workflowData |-> workflow]

\* Mutant of syntheticPayload: the data is appended to the pin entry the node
\* already has.
syntheticPayload_appendsPin(strategy, workflow, node, data, options) ==
    LET pins == IF workflow.pinData # None THEN Val(workflow.pinData) ELSE EmptyPinData
    IN BuildResult(
           strategy, "none",
           Some(withDestination(
                   [EmptyPayload EXCEPT !.triggerToStartFrom = Some([name |-> node.name]),
                                        !.startNodes = Some(<<>>)],
                   options)),
           [workflow EXCEPT !.pinData =
               Some(PinWith(pins, node.name,
                            IF node.name \in DOMAIN pins
                            THEN pins[node.name] \o PinOf(data)
                            ELSE PinOf(data)))])

\* The payload of a synthetic activator: pin the data to the node, start from it.
syntheticPayload(strategy, workflow, node, data, options) ==
    BuildResult(
        strategy, "none",
        Some(withDestination(
                [EmptyPayload EXCEPT !.triggerToStartFrom = Some([name |-> node.name]),
                                     !.startNodes = Some(<<>>)],
                options)),
        [workflow EXCEPT !.pinData =
            Some(PinWith(IF workflow.pinData # None THEN Val(workflow.pinData)
                                                    ELSE EmptyPinData,
                         node.name, PinOf(data)))])

\* Mutant of customTriggerPayload: the pin is written before the node is looked
\* up.
customTriggerPayload_pinsFirst(workflow, options) ==
    LET triggerData == Val(options.triggerData)
        triggerNode == getNode(workflow, triggerData.triggerName)
        pinned == syntheticPayload("custom_trigger", workflow,
                                   [name |-> triggerData.triggerName],
                                   triggerData.payload, options)
    IN IF triggerNode = None
       THEN BuildResult("custom_trigger", "BadRequest: trigger node not found",
                        None, pinned.workflowData)
       ELSE pinned

\* CASE 1: custom trigger data. BadRequest when the named node is absent.
customTriggerPayload(workflow, options) ==
    LET triggerData == Val(options.triggerData)
        triggerNode == getNode(workflow, triggerData.triggerName)
    IN IF triggerNode = None
       THEN BuildResult("custom_trigger", "BadRequest: trigger node not found",
                        None, workflow)
       ELSE syntheticPayload("custom_trigger", workflow, Val(triggerNode),
                             triggerData.payload, options)

\* Mutant of partialResumePayload: the dirty nodes are dropped.
partialResumePayload_dropsDirtyNodes(workflow, options, previousRunData, previousPinData) ==
    BuildResult(
        "partial_resume", "none",
        Some([EmptyPayload EXCEPT
                !.runData = previousRunData,
                !.destinationNode = options.destinationNode,
                !.dirtyNodeNames = Some(<<>>)]),
        withPreviousPinData(workflow, previousPinData))

\* CASE 2: partial execution, resuming from the previous run.
partialResumePayload(workflow, options, previousRunData, previousPinData) ==
    BuildResult(
        "partial_resume", "none",
        Some([EmptyPayload EXCEPT
                !.runData = previousRunData,
                !.destinationNode = options.destinationNode,
                !.dirtyNodeNames = IF options.dirtyNodes # None
                                   THEN options.dirtyNodes
                                   ELSE Some(<<>>)]),
        withPreviousPinData(workflow, previousPinData))

\* CASE 3: full execution with input data. BadRequest when the workflow has no
\* activator node.
fullWithInputPayload(workflow, inputData, options) ==
    LET activatorNodes == SelectSeq(workflow.nodes, isActivatorNode)
    IN IF Len(activatorNodes) = 0
       THEN BuildResult("full_with_input", "BadRequest: no trigger or webhook nodes",
                        None, workflow)
       ELSE syntheticPayload("full_with_input", workflow,
                             selectStartNode(activatorNodes), Val(inputData), options)

\* CASE 4: full execution without input data.
fullWithoutInputPayload(workflow, options, previousPinData) ==
    BuildResult("full_without_input", "none",
                Some(withDestination(EmptyPayload, options)),
                withPreviousPinData(workflow, previousPinData))

\* Mutant of buildExecutionPayload: the partial execution is tested first.
buildExecutionPayload_partialFirst(workflow, inputData, options, previousRunData, previousPinData) ==
    IF previousRunData # None /\ TruthyStr(options.destinationNode)
    THEN partialResumePayload(workflow, options, previousRunData, previousPinData)
    ELSE IF options.triggerData # None
    THEN customTriggerPayload(workflow, options)
    ELSE IF inputData # None
    THEN fullWithInputPayload(workflow, inputData, options)
    ELSE fullWithoutInputPayload(workflow, options, previousPinData)

buildExecutionPayload(workflow, inputData, options, previousRunData, previousPinData) ==
    IF options.triggerData # None
    THEN customTriggerPayload(workflow, options)
    ELSE IF previousRunData # None /\ TruthyStr(options.destinationNode)
    THEN partialResumePayload(workflow, options, previousRunData, previousPinData)
    ELSE IF inputData # None
    THEN fullWithInputPayload(workflow, inputData, options)
    ELSE fullWithoutInputPayload(workflow, options, previousPinData)

\* ------------------------------------------------------------------------
\* executeManually
\* ------------------------------------------------------------------------

\* Mutant of isDestinationNodeATrigger: a destination that is not in the
\* workflow counts as a trigger.
isDestinationNodeATrigger_unknownIsTrigger(destinationNode, workflow) ==
    LET node == getNode(workflow, destinationNode)
    IN IF node = None THEN TRUE ELSE Val(node).type \in TriggerGroupTypes

isDestinationNodeATrigger(destinationNode, workflow) ==
    LET node == getNode(workflow, destinationNode)
    IN IF node = None THEN FALSE ELSE Val(node).type \in TriggerGroupTypes

\* startNodes?.map((nodeData) => nodeData.name)
startNodeNames(startNodes) ==
    IF startNodes = None THEN None
    ELSE Some([i \in 1..Len(Val(startNodes)) |-> Val(startNodes)[i].name])

\* runData after "if the destination node is a trigger ... ignore the run data".
manualRunData(workflowData, payload) ==
    IF TruthyStr(payload.destinationNode)
       /\ isDestinationNodeATrigger(Val(payload.destinationNode), workflowData)
    THEN None
    ELSE payload.runData

\* Mutant of manualPinnedTrigger: the pinned trigger is kept whatever the
\* trigger to start from.
manualPinnedTrigger_keepsComputed(workflowData, payload) ==
    selectPinnedActivatorStarter(workflowData, startNodeNames(payload.startNodes),
                                 workflowData.pinData, payload.destinationNode)

\* pinnedTrigger after "if we have a trigger to start from and it's not the
\* pinned trigger ignore the pinned trigger".
manualPinnedTrigger(workflowData, payload) ==
    LET pinnedTrigger ==
            selectPinnedActivatorStarter(workflowData, startNodeNames(payload.startNodes),
                                         workflowData.pinData, payload.destinationNode)
    IN IF /\ pinnedTrigger # None
          /\ payload.triggerToStartFrom # None
          /\ Val(pinnedTrigger).name # Val(payload.triggerToStartFrom).name
       THEN None
       ELSE pinnedTrigger

\* The condition under which testWebhooks.needsWebhook is called.
consultsWebhook(workflowData, payload) ==
    /\ manualPinnedTrigger(workflowData, payload) = None
    /\ IF manualRunData(workflowData, payload) = None THEN TRUE
       ELSE IF payload.startNodes = None THEN TRUE
       ELSE IF Len(Val(payload.startNodes)) = 0 THEN TRUE
       ELSE payload.destinationNode = None

hasRunData(runData, node) ==
    runData # None /\ node.name \in DOMAIN Val(runData)

\* Mutant of manualRunRequest: the workflow keeps its active flag.
manualRunRequest_keepsActive(workflowData, payload) ==
    LET runData == manualRunData(workflowData, payload)
        pinnedTrigger == manualPinnedTrigger(workflowData, payload)
    IN [destinationNode |-> payload.destinationNode,
        executionMode |-> "manual",
        runData |-> runData,
        pinData |-> workflowData.pinData,
        startNodes |->
            IF pinnedTrigger # None /\ ~hasRunData(runData, Val(pinnedTrigger))
            THEN Some(<<[name |-> Val(pinnedTrigger).name, sourceData |-> "null"]>>)
            ELSE payload.startNodes,
        workflowData |-> workflowData,
        dirtyNodeNames |-> payload.dirtyNodeNames,
        triggerToStartFrom |-> payload.triggerToStartFrom]

\* The IWorkflowExecutionDataProcess handed to workflowRunner.run.
manualRunRequest(workflowData, payload) ==
    LET runData == manualRunData(workflowData, payload)
        pinnedTrigger == manualPinnedTrigger(workflowData, payload)
    IN [destinationNode |-> payload.destinationNode,
        executionMode |-> "manual",
        runData |-> runData,
        pinData |-> workflowData.pinData,
        startNodes |->
            IF pinnedTrigger # None /\ ~hasRunData(runData, Val(pinnedTrigger))
            THEN Some(<<[name |-> Val(pinnedTrigger).name, sourceData |-> "null"]>>)
            ELSE payload.startNodes,
        workflowData |-> [workflowData EXCEPT !.active = FALSE],
        dirtyNodeNames |-> payload.dirtyNodeNames,
        triggerToStartFrom |-> payload.triggerToStartFrom]

\* ------------------------------------------------------------------------
\* The stores and the requests
\* ------------------------------------------------------------------------

\* The recorded output of node "A" in a previous execution.
PriorRunData == [n \in {"A"} |-> "output of A"]

\* The execution store: E1 has run data, E2 was saved without any.
ExecutionStore ==
    [id \in {"E1", "E2"} |->
        [runData |-> IF id = "E1" THEN Some(PriorRunData) ELSE None]]

\* executionRepository.findSingleExecution(id): the execution, or undefined.
findSingleExecution(id) ==
    IF id \in DOMAIN ExecutionStore THEN Some(ExecutionStore[id]) ELSE None

\* The node names a request may mention: those of the largest workflow, so a
\* name is unknown to every smaller workflow.
RequestNodeNames == {NodeNameAt[i] : i \in 1..MaxNodes}

RequestOptions ==
    [destinationNode : {None, Some("")} \cup {Some(n) : n \in RequestNodeNames},
     executionId : {None, Some(""), Some("E1"), Some("E2"), Some("E404")},
     dirtyNodes : {None, Some(<<"A">>)},
     triggerData : {None} \cup
                   {Some([triggerName |-> n, payload |-> "trigger payload"]) :
                        n \in RequestNodeNames}]

Requests ==
    [workflowId : {WorkflowId, MissingWorkflowId},
     inputData : {None, Some("input data")},
     options : RequestOptions]

\* The execution id workflowRunner.run gives a new execution.
NewExecutionId == "X1"

\* ------------------------------------------------------------------------
\* executeWorkflow as a state machine
\* ------------------------------------------------------------------------

VARIABLES
    dbWorkflow,        \* the row of the workflow store
    pc,                \* where executeWorkflow stands
    req,               \* the request: workflowId, inputData, options
    workflow,          \* the workflow object loaded for this request
    previousRunData,
    previousPinData,
    strategy,          \* the strategy the builder logged
    payload,           \* the ManualRunPayload the builder returned
    calls,             \* the collaborator calls made, in order
    webhookNeeded,     \* what testWebhooks.needsWebhook answered
    runRequest,        \* the data handed to workflowRunner.run
    executions,        \* the executions the run engine created
    outcome,           \* the result returned or the error thrown
    sel,               \* a call of selectPinnedActivatorStarter and its result
    bld,               \* two successive calls of buildExecutionPayload
    err,               \* a call of executeErrorWorkflow
    par,               \* two executeWorkflow requests in flight together
    prov,              \* the user store and the calls of provisionUser
    mw,                \* a request passing through the push-auth middleware
    man,               \* a direct call of executeManually
    mig                \* the database under the owner-seeding migration

\* The state of one executeWorkflow call and of the stores it reads.
orchestratorVars ==
    <<dbWorkflow, pc, req, workflow, previousRunData, previousPinData, strategy,
      payload, calls, webhookNeeded, runRequest, executions, outcome>>

\* The state of the operations that are modelled on their own.
sideVars == <<sel, bld, err, par, prov, mw, man, mig>>

vars == <<orchestratorVars, sideVars>>

\* The value of a variable in the runs of an operation that does not use it.
Unused == [pc |-> "unused"]

NoOutcome == [kind |-> "none", error |-> "none", result |-> None]

NoSelectorCall ==
    [pc |-> "unused", workflow |-> None, startNodes |-> None, pinData |-> None,
     destinationNode |-> None, result |-> None]

InitRequest ==
    /\ pc = "idle"
    /\ req = None
    /\ workflow = None
    /\ previousRunData = None
    /\ previousPinData = None
    /\ strategy = "none"
    /\ payload = None
    /\ calls = <<>>
    /\ webhookNeeded = None
    /\ runRequest = None
    /\ executions = {}
    /\ outcome = NoOutcome

\* The workflow store holds a workflow of up to MaxNodes nodes of any type,
\* the first node possibly disabled, with no pin data or a saved pin on one
\* node, unconnected or connected in a chain.
Init ==
    /\ \E k \in 0..MaxNodes :
         \E types \in [1..k -> NodeTypeNames],
            disabled \in {d \in {{}, {1}} : d \subseteq 1..k},
            pinned \in {None} \cup {Some({i}) : i \in 1..k},
            edges \in {{}, ChainEdges(k)} :
           dbWorkflow = MkWorkflow(k, types, disabled, pinned, edges, TRUE)
    /\ InitRequest
    /\ sel = NoSelectorCall
    /\ bld = Unused /\ err = Unused /\ par = Unused /\ prov = Unused /\ mw = Unused /\ man = Unused /\ mig = Unused

\* A caller invokes executeWorkflow(workflowId, inputData, options, user).
Receive(r) ==
    /\ pc = "idle"
    /\ req' = Some(r)
    /\ pc' = "loading_workflow"
    /\ UNCHANGED <<dbWorkflow, workflow, previousRunData, previousPinData, strategy,
                   payload, calls, webhookNeeded, runRequest, executions, outcome, sideVars>>

ReceiveAny == pc = "idle" /\ \E r \in Requests : Receive(r)

\* workflowRepository.findOneBy({ id }): a fresh object, or null.
findOneBy(stored, id) == IF id = stored.id THEN Some(stored) ELSE None

\* Mutant of afterLoadWorkflow: an empty execution id is looked up as well.
afterLoadWorkflow_loadsEmptyExecutionId(found, options) ==
    IF found = None THEN "not_found"
    ELSE IF options.executionId # None THEN "loading_execution"
    ELSE "building"

\* Mutant of afterLoadWorkflow: the previous execution is never loaded.
afterLoadWorkflow_skipsExecution(found, options) ==
    IF found = None THEN "not_found" ELSE "building"

\* Where executeWorkflow goes once findOneBy has answered.
afterLoadWorkflow(found, options) ==
    IF found = None THEN "not_found"
    ELSE IF TruthyStr(options.executionId) THEN "loading_execution"
    ELSE "building"

\* Where executeWorkflow goes once findSingleExecution has answered.
afterLoadExecution(previousExecution) ==
    IF previousExecution = None THEN "not_found" ELSE "building"

\* Step 1: load the workflow; NotFound when it is absent.
LoadWorkflow ==
    /\ pc = "loading_workflow"
    /\ calls' = Append(calls, "findOneBy")
    /\ LET found == findOneBy(dbWorkflow, Val(req).workflowId)
           next == afterLoadWorkflow(found, Val(req).options)
       IN IF next = "not_found"
          THEN /\ outcome' = [kind |-> "not_found", error |-> "NotFound: workflow",
                              result |-> None]
               /\ pc' = "done"
               /\ UNCHANGED workflow
          ELSE /\ workflow' = found
               /\ pc' = next
               /\ UNCHANGED outcome
    /\ UNCHANGED <<dbWorkflow, req, previousRunData, previousPinData, strategy, payload,
                   webhookNeeded, runRequest, executions, sideVars>>

\* Step 3: load the previous execution; NotFound when it is absent.
LoadExecution ==
    /\ pc = "loading_execution"
    /\ calls' = Append(calls, "findSingleExecution")
    /\ LET previousExecution == findSingleExecution(Val(Val(req).options.executionId))
           next == afterLoadExecution(previousExecution)
       IN IF next = "not_found"
          THEN /\ outcome' = [kind |-> "not_found", error |-> "NotFound: execution",
                              result |-> None]
               /\ pc' = "done"
               /\ UNCHANGED <<previousRunData, previousPinData>>
          ELSE /\ previousRunData' = IF previousExecution = None THEN None
                                     ELSE Val(previousExecution).runData
               /\ previousPinData' = Val(workflow).pinData
               /\ pc' = next
               /\ UNCHANGED outcome
    /\ UNCHANGED <<dbWorkflow, req, workflow, strategy, payload, webhookNeeded,
                   runRequest, executions, sideVars>>

\* Step 4: build the payload; the builder writes pin data into the workflow
\* object, or throws BadRequest.
BuildPayload ==
    /\ pc = "building"
    /\ calls' = Append(calls, "buildExecutionPayload")
    /\ LET built == buildExecutionPayload(Val(workflow), Val(req).inputData,
                                          Val(req).options, previousRunData,
                                          previousPinData)
       IN /\ strategy' = built.strategy
          /\ workflow' = Some(built.workflowData)
          /\ payload' = built.payload
          /\ IF built.error # "none"
             THEN /\ outcome' = [kind |-> "bad_request", error |-> built.error,
                                 result |-> None]
                  /\ pc' = "done"
             ELSE /\ pc' = "manual"
                  /\ UNCHANGED outcome
    /\ UNCHANGED <<dbWorkflow, req, previousRunData, previousPinData, webhookNeeded,
                   runRequest, executions, sideVars>>

\* What executeManually returns: { waitingForWebhook: true } or { executionId }.
WaitingResult == [waitingForWebhook |-> TRUE, executionId |-> None]
StartedResult(executionId) == [waitingForWebhook |-> FALSE, executionId |-> Some(executionId)]

\* Mutant of toResponse: every response carries the waiting status.
toResponse_alwaysWaiting(result) ==
    [executionId |-> result.executionId, status |-> Some("waiting")]

\* Step 6: the response executeWorkflow makes of executeManually's result.
toResponse(result) ==
    IF result.waitingForWebhook
    THEN [executionId |-> result.executionId, status |-> Some("waiting")]
    ELSE [executionId |-> result.executionId, status |-> None]

\* Step 5, executeManually up to the webhook check: testWebhooks.needsWebhook
\* answers; when it answers true, executeManually returns
\* { waitingForWebhook: true } and executeWorkflow returns its response.
CheckWebhook(needsWebhook) ==
    /\ pc = "manual"
    /\ consultsWebhook(Val(workflow), Val(payload))
    /\ calls' = Append(calls, "needsWebhook")
    /\ webhookNeeded' = Some(needsWebhook)
    /\ IF needsWebhook
       THEN /\ outcome' = [kind |-> "waiting", error |-> "none",
                           result |-> Some(toResponse(WaitingResult))]
            /\ pc' = "done"
       ELSE /\ pc' = "delegating"
            /\ UNCHANGED outcome
    /\ UNCHANGED <<dbWorkflow, req, workflow, previousRunData, previousPinData, strategy,
                   payload, runRequest, executions, sideVars>>

\* Step 5, the rest of executeManually: set active = false, hand the data to
\* workflowRunner.run, return { executionId }; executeWorkflow returns its
\* response.
RunWorkflow ==
    /\ IF pc = "manual" THEN ~consultsWebhook(Val(workflow), Val(payload))
       ELSE pc = "delegating"
    /\ calls' = Append(calls, "run")
    /\ runRequest' = Some(manualRunRequest(Val(workflow), Val(payload)))
    /\ workflow' = Some([Val(workflow) EXCEPT !.active = FALSE])
    /\ executions' = executions \cup {NewExecutionId}
    /\ outcome' = [kind |-> "started", error |-> "none",
                   result |-> Some(toResponse(StartedResult(NewExecutionId)))]
    /\ pc' = "done"
    /\ UNCHANGED <<dbWorkflow, req, previousRunData, previousPinData, strategy, payload,
                   webhookNeeded, sideVars>>

Next ==
    \/ ReceiveAny
    \/ LoadWorkflow
    \/ LoadExecution
    \/ BuildPayload
    \/ \E needsWebhook \in BOOLEAN : CheckWebhook(needsWebhook)
    \/ RunWorkflow

Spec == Init /\ [][Next]_vars

\* The steps executeWorkflow takes once it holds a request: each awaits a
\* collaborator, and goes on when the collaborator returns.
ExecuteStep ==
    \/ LoadWorkflow
    \/ LoadExecution
    \/ BuildPayload
    \/ \E needsWebhook \in BOOLEAN : CheckWebhook(needsWebhook)
    \/ RunWorkflow

\* executeWorkflow with collaborators that always return.
SpecLive == Spec /\ WF_vars(ExecuteStep)

\* ------------------------------------------------------------------------
\* selectPinnedActivatorStarter on its own
\* ------------------------------------------------------------------------

GraphNodeNames(k) == {NodeNameAt[i] : i \in 1..k}

\* A name that no node of any workflow has.
UnknownNodeName == "Z"

\* The connections of the workflows handed to the selector: any set of
\* connections from an earlier to a later node.
ForwardEdges(k) == SUBSET {e \in (1..k) \X (1..k) : e[1] < e[2]}

\* The start node lists of a partial execution on a workflow of k nodes: one
\* node, known or not, or a node followed by the next one.
PartialStartNodes(k) ==
    {<<n>> : n \in GraphNodeNames(k) \cup {UnknownNodeName}}
        \cup {<<NodeNameAt[i], NodeNameAt[(i % k) + 1]>> : i \in 1..k}

\* The start node list and the destination of a call: no list or an empty one
\* with any destination (none, empty, unknown, or a node), or a start node
\* list with no destination or the last node as destination.
StartAndDestination(k) ==
    ({None, Some(<<>>)}
        \X ({None, Some(""), Some(UnknownNodeName)} \cup {Some(n) : n \in GraphNodeNames(k)}))
    \cup ({Some(l) : l \in PartialStartNodes(k)} \X {None, Some(NodeNameAt[k])})

\* A call of the selector: a workflow of up to MaxGraphNodes nodes of any
\* type, the first node possibly disabled, pin data on any of its nodes (or
\* none), a start node list, a destination.
SelectorCall(w, pinData, startNodes, destinationNode) ==
    [pc |-> "called", workflow |-> Some(w), startNodes |-> startNodes,
     pinData |-> pinData, destinationNode |-> destinationNode, result |-> None]

InitSelect ==
    /\ dbWorkflow = MkWorkflow(0, <<>>, {}, None, {}, TRUE)
    /\ InitRequest
    /\ bld = Unused /\ err = Unused /\ par = Unused /\ prov = Unused /\ mw = Unused /\ man = Unused /\ mig = Unused
    /\ \E k \in 1..MaxGraphNodes :
         \E types \in [1..k -> GraphTypeNames],
            disabled \in {d \in {{}, {1}} : d \subseteq 1..k},
            edges \in ForwardEdges(k),
            pinned \in {None} \cup {Some(p) : p \in SUBSET (1..k)},
            call \in StartAndDestination(k) :
           sel = SelectorCall(MkWorkflow(k, types, disabled, None, edges, TRUE),
                              MkPinData(pinned), call[1], call[2])

\* selectPinnedActivatorStarter returns.
Select ==
    /\ sel.pc = "called"
    /\ sel' = [sel EXCEPT
                 !.pc = "returned",
                 !.result = selectPinnedActivatorStarter(Val(sel.workflow), sel.startNodes,
                                                         sel.pinData, sel.destinationNode)]
    /\ UNCHANGED <<orchestratorVars, bld, err, par, prov, mw, man, mig>>

NextSelect == Select

SpecSelect == InitSelect /\ [][NextSelect]_vars

\* ------------------------------------------------------------------------
\* buildExecutionPayload on its own, called twice
\* ------------------------------------------------------------------------

\* The options the builder reads: destinationNode, dirtyNodes, triggerData.
BuilderOptions == {o \in RequestOptions : o.executionId = None}

\* Pin data of an earlier version of the workflow, on node "A".
OtherPinData == Some([n \in {"A"} |-> <<[json |-> "previous"]>>])

\* The arguments of the builder: a workflow as in the workflow store, input
\* data or none, options, the run data of a previous execution or none, and
\* previous pin data (none, the workflow's own, or other pin data).
InitBuild ==
    /\ dbWorkflow = MkWorkflow(0, <<>>, {}, None, {}, TRUE)
    /\ InitRequest
    /\ sel = NoSelectorCall
    /\ err = Unused /\ par = Unused /\ prov = Unused /\ mw = Unused /\ man = Unused /\ mig = Unused
    /\ \E k \in 0..MaxNodes :
         \E types \in [1..k -> NodeTypeNames],
            disabled \in {d \in {{}, {1}} : d \subseteq 1..k},
            pinned \in {None} \cup {Some({i}) : i \in 1..k},
            edges \in {{}, ChainEdges(k)},
            inputData \in {None, Some("input data")},
            options \in BuilderOptions,
            prevRunData \in {None, Some(PriorRunData)},
            prevPinChoice \in {"none", "own", "other"} :
           LET w == MkWorkflow(k, types, disabled, pinned, edges, TRUE)
           IN bld = [pc |-> "ready",
                     workflow |-> w,
                     inputData |-> inputData,
                     options |-> options,
                     previousRunData |-> prevRunData,
                     previousPinData |-> CASE prevPinChoice = "none" -> None
                                           [] prevPinChoice = "own" -> w.pinData
                                           [] OTHER -> OtherPinData,
                     first |-> None,
                     second |-> None]

\* The builder is called on the workflow object.
Build ==
    /\ bld.pc = "ready"
    /\ bld' = [bld EXCEPT
                 !.pc = "built",
                 !.first = Some(buildExecutionPayload(bld.workflow, bld.inputData,
                                                      bld.options, bld.previousRunData,
                                                      bld.previousPinData))]
    /\ UNCHANGED <<orchestratorVars, sel, err, par, prov, mw, man, mig>>

\* The builder is called again, with the same arguments, on the workflow
\* object as the first call left it.
Rebuild ==
    /\ bld.pc = "built"
    /\ bld' = [bld EXCEPT
                 !.pc = "rebuilt",
                 !.second = Some(buildExecutionPayload(Val(bld.first).workflowData,
                                                       bld.inputData, bld.options,
                                                       bld.previousRunData,
                                                       bld.previousPinData))]
    /\ UNCHANGED <<orchestratorVars, sel, err, par, prov, mw, man, mig>>

NextBuild == Build \/ Rebuild

SpecBuild == InitBuild /\ [][NextBuild]_vars

\* ------------------------------------------------------------------------
\* executeErrorWorkflow
\* ------------------------------------------------------------------------

\* Largest number of nodes of an error workflow.
MaxErrorNodes == 2

\* globalConfig.nodes.errorTriggerType
ErrorTriggerType == "n8n-nodes-base.errorTrigger"

ErrorWorkflowId == "wfErr"
FailingWorkflowId == "wfFailing"
RunningProjectId == "project1"

\* Node types of the error workflows.
ErrorNodeTypeNames == {ErrorTriggerType, ManualTriggerType, SetType}

\* workflowErrorData: the failing workflow, and the failed execution when
\* there is one.
WorkflowErrorData(executionId) ==
    [workflow |-> [id |-> FailingWorkflowId], executionId |-> executionId]

\* Mutant of findErrorTrigger: the last node is taken whatever its type.
findErrorTrigger_anyNode(nodes) ==
    IF Len(nodes) = 0 THEN None ELSE Some(nodes[Len(nodes)])

\* for (nodeName of Object.keys(nodes)) if (node.type === errorTriggerType)
\* workflowStartNode = node: the last node of the error trigger type.
findErrorTrigger(nodes) ==
    LET hits == SelectSeq(nodes, LAMBDA node : node.type = ErrorTriggerType)
    IN IF Len(hits) = 0 THEN None ELSE Some(hits[Len(hits)])

\* Mutant of failedExecutionPayload: the fake execution is saved as finished.
failedExecutionPayload_finished(workflowData, now) ==
    [mode |-> "error", finished |-> TRUE, stoppedAt |-> Some(now),
     workflowId |-> workflowData.id, waitTill |-> None, status |-> "error"]

\* fullExecutionData: the CreateExecutionPayload of the fake failed execution.
failedExecutionPayload(workflowData, now) ==
    [mode |-> "error", finished |-> FALSE, stoppedAt |-> Some(now),
     workflowId |-> workflowData.id, waitTill |-> None, status |-> "error"]

\* parentExecution: set when the failed execution and workflow have ids.
parentExecutionOf(workflowErrorData) ==
    IF TruthyStr(workflowErrorData.executionId)
    THEN Some([executionId |-> Val(workflowErrorData.executionId),
               workflowId |-> workflowErrorData.workflow.id])
    ELSE None

\* runData handed to workflowRunner.run: mode 'error' and an execution stack
\* holding the start node with the error data as its input.
errorRunData(workflowData, workflowStartNode, workflowErrorData) ==
    [executionMode |-> "error",
     nodeExecutionStack |->
         <<[node |-> workflowStartNode,
            json |-> workflowErrorData,
            source |-> "null",
            parentExecution |-> parentExecutionOf(workflowErrorData)]>>,
     workflowData |-> workflowData,
     projectId |-> RunningProjectId]

\* Mutant of catchAll: the error is thrown on to the caller.
catchAll_rethrows(state, message) ==
    [state EXCEPT !.pc = "done", !.result = "threw",
                  !.log = Append(state.log, "error: " \o message)]

\* The outer catch: report and log the error, return normally.
catchAll(state, message) ==
    [state EXCEPT !.pc = "done", !.result = "returned",
                  !.log = Append(state.log, "error: " \o message)]

\* return after logging.
returnAfter(state, entry) ==
    [state EXCEPT !.pc = "done", !.result = "returned", !.log = Append(state.log, entry)]

\* A call of executeErrorWorkflow: the workflow store holds the error
\* workflow (up to MaxErrorNodes nodes of any type) or does not; the failed
\* execution has an id or not.
InitError ==
    /\ dbWorkflow = MkWorkflow(0, <<>>, {}, None, {}, TRUE)
    /\ InitRequest
    /\ sel = NoSelectorCall
    /\ bld = Unused /\ par = Unused /\ prov = Unused /\ mw = Unused /\ man = Unused /\ mig = Unused
    /\ \E stored \in {None} \cup
                    UNION {{Some([id |-> ErrorWorkflowId,
                                  nodes |-> MkNodes(k, types, disabled)]) :
                               types \in [1..k -> ErrorNodeTypeNames],
                               disabled \in {d \in {{}, {1}} : d \subseteq 1..k}} :
                           k \in 0..MaxErrorNodes},
          executionId \in {None, Some("X9")} :
         err = [pc |-> "loading",
                store |-> stored,
                data |-> WorkflowErrorData(executionId),
                workflowData |-> None,
                policy |-> "none",
                initialNode |-> None,
                log |-> <<>>,
                created |-> <<>>,
                runs |-> <<>>,
                result |-> "none"]

\* workflowRepository.findOneBy: the lookup fails, finds nothing, or finds
\* the error workflow.
ErrLoadWorkflow(fails) ==
    /\ err.pc = "loading"
    /\ err' = IF fails THEN catchAll(err, "findOneBy")
              ELSE IF err.store = None
              THEN returnAfter(err, "error: could not find error workflow")
              ELSE [err EXCEPT !.pc = "checking", !.workflowData = err.store]
    /\ UNCHANGED <<orchestratorVars, sel, bld, par, prov, mw, man, mig>>

\* subworkflowPolicyChecker.check: passes or rejects (throws).
ErrCheckPolicy(rejected) ==
    /\ err.pc = "checking"
    /\ err' = [err EXCEPT !.pc = IF rejected THEN "rejected" ELSE "locating",
                          !.policy = IF rejected THEN "rejected" ELSE "ok"]
    /\ UNCHANGED <<orchestratorVars, sel, bld, par, prov, mw, man, mig>>

\* Workflow.getStartNode(): a node of the workflow, or undefined.
StartNodeAnswers(workflowData) ==
    {None} \cup {Some(workflowData.nodes[i]) : i \in 1..Len(workflowData.nodes)}

\* The inner catch: when the workflow has a start node, generate a fake failed
\* execution and save it; log the rejection; return.
ErrRecordRejection(generateFails, createFails) ==
    /\ err.pc = "rejected"
    /\ \E initialNode \in StartNodeAnswers(Val(err.workflowData)) :
         LET seen == [err EXCEPT !.initialNode = initialNode]
         IN err' =
              IF initialNode = None
              THEN returnAfter(seen, "info: blocked due to subworkflow settings")
              ELSE IF generateFails
              THEN catchAll(seen, "generateFailedExecutionFromError")
              ELSE IF createFails
              THEN catchAll(seen, "createNewExecution")
              ELSE returnAfter(
                       [seen EXCEPT !.created =
                           Append(seen.created,
                                  failedExecutionPayload(Val(err.workflowData), "now"))],
                       "info: blocked due to subworkflow settings")
    /\ UNCHANGED <<orchestratorVars, sel, bld, par, prov, mw, man, mig>>

\* Locate the error trigger node; without one, log and return; with one, call
\* workflowRunner.run, which may fail.
ErrRun(runFails) ==
    /\ err.pc = "locating"
    /\ LET workflowStartNode == findErrorTrigger(Val(err.workflowData).nodes)
       IN err' =
            IF workflowStartNode = None
            THEN returnAfter(err, "error: could not find error trigger")
            ELSE LET ran == [err EXCEPT !.runs =
                                Append(err.runs,
                                       errorRunData(Val(err.workflowData),
                                                    Val(workflowStartNode), err.data))]
                 IN IF runFails THEN catchAll(ran, "workflowRunner.run")
                    ELSE [ran EXCEPT !.pc = "done", !.result = "returned"]
    /\ UNCHANGED <<orchestratorVars, sel, bld, par, prov, mw, man, mig>>

NextError ==
    \/ \E fails \in BOOLEAN : ErrLoadWorkflow(fails)
    \/ \E rejected \in BOOLEAN : ErrCheckPolicy(rejected)
    \/ \E generateFails \in BOOLEAN, createFails \in BOOLEAN :
         ErrRecordRejection(generateFails, createFails)
    \/ \E runFails \in BOOLEAN : ErrRun(runFails)

SpecError == InitError /\ [][NextError]_vars

\* ------------------------------------------------------------------------
\* Two executeWorkflow requests in flight together
\* ------------------------------------------------------------------------

\* The requests in flight.
Procs == {1, 2}

\* The input data of each of the two requests.
ParInputData == <<"input of request 1", "input of request 2">>

\* The requests of the concurrent runs: with or without input data, with or
\* without trigger data, on the stored workflow.
ParRequests(i) ==
    [workflowId : {WorkflowId},
     inputData : {None, Some(ParInputData[i])},
     options : {o \in BuilderOptions : o.destinationNode = None /\ o.dirtyNodes = None}]

\* The heap of workflow objects: a reference is an index into it.
\* A repository lookup answers a new object holding the stored row.
freshObject(heap, value) == [ref |-> Len(heap) + 1, heap |-> Append(heap, value)]

\* Mutant of loadWorkflowObject: the service keeps the object of the first
\* lookup and hands it to every later request.
loadWorkflowObject_memoised(heap, stored) ==
    IF Len(heap) > 0 THEN [ref |-> 1, heap |-> heap] ELSE freshObject(heap, stored)

\* executeWorkflow asks the repository for the workflow on every request.
loadWorkflowObject(heap, stored) == freshObject(heap, stored)

NoProc ==
    [pc |-> "idle", req |-> None, ref |-> 0, strategy |-> "none", payload |-> None,
     runRequest |-> None, outcome |-> "none"]

\* The workflow store of the concurrent runs: up to MaxNodes enabled nodes,
\* unconnected, with no pin data or a saved pin on one node.
InitConcurrent ==
    /\ \E k \in 0..MaxNodes :
         \E types \in [1..k -> {ManualTriggerType, WebhookType, SetType}],
            pinned \in {None} \cup {Some({i}) : i \in 1..k} :
           dbWorkflow = MkWorkflow(k, types, {}, pinned, {}, TRUE)
    /\ InitRequest
    /\ sel = NoSelectorCall
    /\ bld = Unused /\ err = Unused /\ prov = Unused /\ mw = Unused /\ man = Unused /\ mig = Unused
    /\ par = [heap |-> <<>>, procs |-> [i \in Procs |-> NoProc], steps |-> <<>>]

\* A caller invokes executeWorkflow.
ParReceive(i) ==
    /\ par.procs[i].pc = "idle"
    /\ \E r \in ParRequests(i) :
         par' = [par EXCEPT !.procs[i].pc = "loading_workflow",
                            !.procs[i].req = Some(r)]
    /\ UNCHANGED <<orchestratorVars, sel, bld, err, prov, mw, man, mig>>

\* Step 1 of request i: load the workflow.
ParLoadWorkflow(i) ==
    /\ par.procs[i].pc = "loading_workflow"
    /\ LET loaded == loadWorkflowObject(par.heap, dbWorkflow)
       IN par' = [par EXCEPT !.heap = loaded.heap,
                             !.procs[i].ref = loaded.ref,
                             !.procs[i].pc = "building",
                             !.steps = Append(par.steps, <<i, "load">>)]
    /\ UNCHANGED <<orchestratorVars, sel, bld, err, prov, mw, man, mig>>

\* Step 4 of request i: the builder writes into the workflow object of the
\* request.
ParBuildPayload(i) ==
    /\ par.procs[i].pc = "building"
    /\ LET p == par.procs[i]
           built == buildExecutionPayload(par.heap[p.ref], Val(p.req).inputData,
                                          Val(p.req).options, None, None)
       IN par' = [par EXCEPT
                    !.heap[p.ref] = built.workflowData,
                    !.procs[i].strategy = built.strategy,
                    !.procs[i].payload = built.payload,
                    !.procs[i].pc = IF built.error # "none" THEN "done" ELSE "manual",
                    !.procs[i].outcome = IF built.error # "none" THEN "bad_request"
                                         ELSE "none",
                    !.steps = Append(par.steps, <<i, "build">>)]
    /\ UNCHANGED <<orchestratorVars, sel, bld, err, prov, mw, man, mig>>

\* Step 5 of request i: executeManually waits for the webhook, or sets
\* active = false on the workflow object and hands it to the run engine.
ParExecuteManually(i, needsWebhook) ==
    /\ par.procs[i].pc = "manual"
    /\ LET p == par.procs[i]
           w == par.heap[p.ref]
       IN IF consultsWebhook(w, Val(p.payload)) /\ needsWebhook
          THEN par' = [par EXCEPT !.procs[i].pc = "done",
                                  !.procs[i].outcome = "waiting",
                                  !.steps = Append(par.steps, <<i, "wait">>)]
          ELSE par' = [par EXCEPT
                         !.heap[p.ref] = [w EXCEPT !.active = FALSE],
                         !.procs[i].runRequest =
                             Some([manualRunRequest(w, Val(p.payload))
                                      EXCEPT !.workflowData = p.ref]),
                         !.procs[i].pc = "done",
                         !.procs[i].outcome = "started",
                         !.steps = Append(par.steps, <<i, "run">>)]
    /\ UNCHANGED <<orchestratorVars, sel, bld, err, prov, mw, man, mig>>

NextConcurrent ==
    \E i \in Procs :
        \/ ParReceive(i)
        \/ ParLoadWorkflow(i)
        \/ ParBuildPayload(i)
        \/ \E needsWebhook \in BOOLEAN : ParExecuteManually(i, needsWebhook)

SpecConcurrent == InitConcurrent /\ [][NextConcurrent]_vars

\* ------------------------------------------------------------------------
\* UsersController.provisionUser
\* ------------------------------------------------------------------------

\* The email addresses of the provisioning requests; the first is the address
\* of the instance owner, who exists before any request.
ProvisionEmails == {"owner@example.com", "ann@example.com", "bob@example.com"}

\* The salts the password hashing may draw.
HashSalts == {"salt1", "salt2"}

ProvisionedKeyLabel == "Brackett API Key"

\* const randomPassword = 'Password@123'
ProvisionPassword == "Password@123"

\* passwordUtility.hash(plaintext): a salted hash of the plaintext.
hash(plaintext, salt) == [plaintext |-> plaintext, salt |-> salt]

\* userRepository.findOne({ where: { email } }): the user, or null.
findUserByEmail(users, email) == find(users, LAMBDA u : u.email = email)

\* The user row createUserWithProject stores for a provisioning request body.
provisionedUser(id, body, salt) ==
    [id |-> id,
     email |-> body.email,
     password |-> hash(ProvisionPassword, salt),
     firstName |-> IF TruthyStr(body.firstName) THEN Val(body.firstName) ELSE "",
     lastName |-> "",
     role |-> "global:member",
     provisioned |-> TRUE]

\* The user store before any provisioning: the owner, who chose a password,
\* and no API keys.
InitProvision ==
    /\ dbWorkflow = MkWorkflow(0, <<>>, {}, None, {}, TRUE)
    /\ InitRequest
    /\ sel = NoSelectorCall
    /\ bld = Unused /\ err = Unused /\ par = Unused /\ mw = Unused /\ man = Unused /\ mig = Unused
    /\ prov = [users |-> <<[id |-> 1, email |-> "owner@example.com",
                            password |-> hash("the owner's own password", "salt1"),
                            firstName |-> "Olga", lastName |-> "", role |-> "global:owner",
                            provisioned |-> FALSE]>>,
               apiKeys |-> <<>>,
               events |-> <<>>,
               response |-> None]

\* POST /provision-user: an existing user gets an API key unless it has a
\* provisioned one (BadRequest); otherwise the user is created with a hashed
\* password and an API key, and 'user-invited' is emitted.
ProvisionUser(body, salt) ==
    /\ LET existingUser == findUserByEmail(prov.users, body.email)
           keyOf(user) == [userId |-> user.id, label |-> ProvisionedKeyLabel,
                           expiresAt |-> None, apiKey |-> Len(prov.apiKeys) + 1]
       IN IF existingUser # None
          THEN IF \E i \in 1..Len(prov.apiKeys) :
                     /\ prov.apiKeys[i].userId = Val(existingUser).id
                     /\ prov.apiKeys[i].label = ProvisionedKeyLabel
               THEN prov' = [prov EXCEPT !.response =
                                Some([error |-> "BadRequest: already provisioned"])]
               ELSE prov' = [prov EXCEPT
                                !.apiKeys = Append(prov.apiKeys, keyOf(Val(existingUser))),
                                !.response =
                                    Some([error |-> "none",
                                          user_id |-> Val(existingUser).id,
                                          email |-> Val(existingUser).email,
                                          api_key |-> keyOf(Val(existingUser)).apiKey])]
          ELSE LET user == provisionedUser(Len(prov.users) + 1, body, salt)
               IN prov' = [prov EXCEPT
                              !.users = Append(prov.users, user),
                              !.apiKeys = Append(prov.apiKeys, keyOf(user)),
                              !.events = Append(prov.events,
                                                [name |-> "user-invited",
                                                 targetUserId |-> user.id,
                                                 emailSent |-> FALSE]),
                              !.response =
                                  Some([error |-> "none", user_id |-> user.id,
                                        email |-> user.email,
                                        api_key |-> keyOf(user).apiKey])]
    /\ UNCHANGED <<orchestratorVars, sel, bld, err, par, mw, man, mig>>

NextProvision ==
    \E email \in ProvisionEmails, firstName \in {None, Some("Ann")}, salt \in HashSalts :
        ProvisionUser([email |-> email, firstName |-> firstName], salt)

SpecProvision == InitProvision /\ [][NextProvision]_vars

\* ------------------------------------------------------------------------
\* PushAuthMiddleware
\* ------------------------------------------------------------------------

\* The users of the middleware runs.
PushUsers == {"u1", "u2"}

\* The API key rows: key, audience and owner.
ApiKeyRows ==
    {[apiKey |-> "n8n_api_legacy1", audience |-> "public-api", userId |-> "u1"],
     [apiKey |-> "jwt.valid.1", audience |-> "public-api", userId |-> "u1"],
     [apiKey |-> "jwt.expired.1", audience |-> "public-api", userId |-> "u1"],
     [apiKey |-> "n8n_api_legacy2", audience |-> "public-api", userId |-> "u2"],
     [apiKey |-> "jwt.valid.mcp", audience |-> "mcp-server-api", userId |-> "u2"]}

\* The values of the X-N8N-API-KEY header: the keys of the store, keys that
\* are in no row, and the empty string.
ApiKeyHeaders ==
    {r.apiKey : r \in ApiKeyRows} \cup {"n8n_api_unknown", "jwt.valid.unknown", ""}

\* The tokens jwtService.verify accepts for issuer 'n8n', audience 'public-api'.
VerifiableJwts == {"jwt.valid.1", "jwt.valid.unknown"}

startsWith(s, prefix) ==
    Len(s) >= Len(prefix) /\ SubSeq(s, 1, Len(prefix)) = prefix

\* userRepository.findOne({ where: { apiKeys: { apiKey, audience: 'public-api' } } })
findUserByApiKey(users, apiKey) ==
    LET rows == {r \in ApiKeyRows : r.apiKey = apiKey /\ r.audience = "public-api"}
    IN IF rows = {} THEN None
       ELSE LET r == CHOOSE x \in rows : TRUE
            IN Some([id |-> r.userId, disabled |-> users[r.userId].disabled])

\* Mutant of authenticateWithApiKey: a disabled user is let in.
authenticateWithApiKey_allowsDisabled(apiKey, users, lookupFails) ==
    IF lookupFails THEN [success |-> FALSE, user |-> None]
    ELSE LET user == findUserByApiKey(users, apiKey)
         IN IF user = None THEN [success |-> FALSE, user |-> None]
            ELSE IF ~startsWith(apiKey, "n8n_api_") /\ apiKey \notin VerifiableJwts
            THEN [success |-> FALSE, user |-> None]
            ELSE [success |-> TRUE, user |-> user]

\* authenticateWithApiKey: the user of the key, unless the lookup throws, no
\* user has the key, the user is disabled, or the key is not a legacy key and
\* its JWT does not verify.
authenticateWithApiKey(apiKey, users, lookupFails) ==
    IF lookupFails THEN [success |-> FALSE, user |-> None]
    ELSE LET user == findUserByApiKey(users, apiKey)
         IN IF user = None THEN [success |-> FALSE, user |-> None]
            ELSE IF Val(user).disabled THEN [success |-> FALSE, user |-> None]
            ELSE IF ~startsWith(apiKey, "n8n_api_") /\ apiKey \notin VerifiableJwts
            THEN [success |-> FALSE, user |-> None]
            ELSE [success |-> TRUE, user |-> user]

\* A push connection request: the X-N8N-API-KEY header or none, over a user
\* store in which each user is enabled or disabled.
InitPushAuth ==
    /\ dbWorkflow = MkWorkflow(0, <<>>, {}, None, {}, TRUE)
    /\ InitRequest
    /\ sel = NoSelectorCall
    /\ bld = Unused /\ err = Unused /\ par = Unused /\ prov = Unused /\ man = Unused /\ mig = Unused
    /\ \E header \in {None} \cup {Some(k) : k \in ApiKeyHeaders},
          disabled \in [PushUsers -> BOOLEAN] :
         mw = [pc |-> "received",
               apiKeyHeader |-> header,
               users |-> [u \in PushUsers |-> [disabled |-> disabled[u]]],
               lookupFailed |-> FALSE,
               user |-> None,
               nextCalls |-> 0,
               status |-> None,
               cookieAttempted |-> FALSE]

\* The middleware up to the cookie fallback: with an API key, authenticate by
\* it and call next() or answer 401; without one, go on to the cookie
\* middleware.
PushAuthenticate(lookupFails) ==
    /\ mw.pc = "received"
    /\ IF TruthyStr(mw.apiKeyHeader)
       THEN LET result == authenticateWithApiKey(Val(mw.apiKeyHeader), mw.users, lookupFails)
            IN mw' = IF result.success
                     THEN [mw EXCEPT !.pc = "done", !.user = result.user,
                                     !.nextCalls = mw.nextCalls + 1,
                                     !.lookupFailed = lookupFails]
                     ELSE [mw EXCEPT !.pc = "done", !.status = Some(401),
                                     !.lookupFailed = lookupFails]
       ELSE /\ ~lookupFails
            /\ mw' = [mw EXCEPT !.pc = "cookie", !.cookieAttempted = TRUE]
    /\ UNCHANGED <<orchestratorVars, sel, bld, err, par, prov, man, mig>>

\* The cookie middleware decides: next() with the user of the cookie, or 401.
PushCookieAuth(cookieUser) ==
    /\ mw.pc = "cookie"
    /\ mw' = IF cookieUser # None
             THEN [mw EXCEPT !.pc = "done",
                             !.user = Some([id |-> Val(cookieUser),
                                            disabled |-> mw.users[Val(cookieUser)].disabled]),
                             !.nextCalls = mw.nextCalls + 1]
             ELSE [mw EXCEPT !.pc = "done", !.status = Some(401)]
    /\ UNCHANGED <<orchestratorVars, sel, bld, err, par, prov, man, mig>>

NextPushAuth ==
    \/ \E lookupFails \in BOOLEAN : PushAuthenticate(lookupFails)
    \/ \E cookieUser \in {None} \cup {Some(u) : u \in PushUsers} : PushCookieAuth(cookieUser)

SpecPushAuth == InitPushAuth /\ [][NextPushAuth]_vars

\* ------------------------------------------------------------------------
\* executeManually on its own
\* ------------------------------------------------------------------------

\* The run data a caller may supply: none, or the recorded output of one node.
ManualRunDatas(k) ==
    {None} \cup {Some([n \in {NodeNameAt[i]} |-> "output"]) : i \in 1..k}

\* The ManualRunPayload fields a caller may supply on a workflow of k nodes.
ManualPayloads(k) ==
    [runData : ManualRunDatas(k),
     startNodes : {None, Some(<<>>)}
                  \cup {Some(<<[name |-> n, sourceData |-> "null"]>>) : n \in GraphNodeNames(k)},
     destinationNode : {None, Some(""), Some(UnknownNodeName)}
                       \cup {Some(n) : n \in GraphNodeNames(k)},
     dirtyNodeNames : {None},
     triggerToStartFrom : {None} \cup {Some([name |-> n]) : n \in GraphNodeNames(k)}]

\* What executeManually passes to testWebhooks.needsWebhook.
needsWebhookArguments(workflowData, body) ==
    [workflowEntity |-> workflowData,
     runData |-> manualRunData(workflowData, body),
     destinationNode |-> body.destinationNode,
     triggerToStartFrom |-> body.triggerToStartFrom]

\* A call of executeManually: a workflow of up to MaxNodes nodes of any type,
\* active or not, the first node possibly disabled, pin data on any of its
\* nodes or none, unconnected or connected in a chain, and any payload.
InitManual ==
    /\ dbWorkflow = MkWorkflow(0, <<>>, {}, None, {}, TRUE)
    /\ InitRequest
    /\ sel = NoSelectorCall
    /\ bld = Unused /\ err = Unused /\ par = Unused /\ prov = Unused /\ mw = Unused
    /\ mig = Unused
    /\ \E k \in 1..MaxNodes :
         \E types \in [1..k -> NodeTypeNames],
            disabled \in {d \in {{}, {1}} : d \subseteq 1..k},
            pinned \in {None} \cup {Some(p) : p \in SUBSET (1..k)},
            edges \in {{}, ChainEdges(k)},
            active \in BOOLEAN,
            body \in ManualPayloads(k) :
           man = [pc |-> "called",
                  given |-> MkWorkflow(k, types, disabled, pinned, edges, active),
                  workflowData |-> MkWorkflow(k, types, disabled, pinned, edges, active),
                  payload |-> body,
                  webhookCall |-> None,
                  data |-> None,
                  result |-> None]

\* executeManually up to the webhook check: testWebhooks.needsWebhook is
\* called and answers; on true, { waitingForWebhook: true } is returned.
ManualCheckWebhook(needsWebhook) ==
    /\ man.pc = "called"
    /\ consultsWebhook(man.workflowData, man.payload)
    /\ man' = [man EXCEPT
                 !.webhookCall = Some(needsWebhookArguments(man.workflowData, man.payload)),
                 !.pc = IF needsWebhook THEN "returned" ELSE "checked",
                 !.result = IF needsWebhook THEN Some(WaitingResult) ELSE None]
    /\ UNCHANGED <<orchestratorVars, sel, bld, err, par, prov, mw, mig>>

\* The rest of executeManually: workflowData.active = false, the data is
\* handed to workflowRunner.run, { executionId } is returned.
ManualRun ==
    /\ IF man.pc = "called" THEN ~consultsWebhook(man.workflowData, man.payload)
       ELSE man.pc = "checked"
    /\ man' = [man EXCEPT
                 !.workflowData = [man.workflowData EXCEPT !.active = FALSE],
                 !.data = Some(manualRunRequest(man.workflowData, man.payload)),
                 !.pc = "returned",
                 !.result = Some(StartedResult(NewExecutionId))]
    /\ UNCHANGED <<orchestratorVars, sel, bld, err, par, prov, mw, mig>>

NextManual ==
    \/ \E needsWebhook \in BOOLEAN : ManualCheckWebhook(needsWebhook)
    \/ ManualRun

SpecManual == InitManual /\ [][NextManual]_vars

\* ------------------------------------------------------------------------
\* The owner-seeding migration
\* ------------------------------------------------------------------------

MaxMigrationRuns == 3

SeededUserId == "ef9ddb9d-ea94-4244-b182-f72c005a9735"
SeededUserEmail == "admin@brackett.ai"
SeededApiKeyId == "gdN0nvCO0D6jSqkK"

\* The ids generateNanoId may give a new project.
NewProjectIds == {"n1", "n2", "n3"}

\* The users a database may hold before the migration: the seeded owner, a
\* user under another id with the seeded e-mail address, and another user.
SeededUser == [id |-> SeededUserId, email |-> SeededUserEmail]
SameEmailUser == [id |-> "u2", email |-> SeededUserEmail]
OtherUser == [id |-> "u3", email |-> "ann@example.com"]

PersonalProjectOf(user) == [id |-> "project of " \o user.id, type |-> "personal"]

\* The tables the migration reads and writes. Every user has a personal
\* project and a relation to it; the seeded owner may have an API key; the
\* settings table may lack the owner-setup row.
MigrationDatabase(users, withApiKey, roles, ownerSetUp) ==
    [user |-> users,
     project |-> {PersonalProjectOf(u) : u \in users},
     project_relation |->
         {[projectId |-> PersonalProjectOf(u).id, userId |-> u.id,
           role |-> "project:personalOwner"] : u \in users},
     user_api_keys |->
         IF withApiKey /\ SeededUser \in users
         THEN {[id |-> SeededApiKeyId, userId |-> SeededUserId]}
         ELSE {},
     role |-> roles,
     settings |-> ownerSetUp]

\* UPDATE settings SET value = ? WHERE key = 'userManagement.isInstanceOwnerSetUp'
setOwnerSetUp(settings, value) ==
    IF settings = None THEN None ELSE Some(value)

\* AddBrackettOwnerUser1762329600000.up with projectId = generateNanoId().
up(db, projectId) ==
    LET existingUser ==
            {u \in db.user : u.id = SeededUserId \/ u.email = SeededUserEmail}
    IN IF existingUser # {} THEN db
       ELSE [user |-> db.user \cup {SeededUser},
             project |-> db.project \cup {[id |-> projectId, type |-> "personal"]},
             project_relation |->
                 db.project_relation
                     \cup {[projectId |-> projectId, userId |-> SeededUserId,
                            role |-> "project:personalOwner"]},
             user_api_keys |->
                 db.user_api_keys \cup {[id |-> SeededApiKeyId, userId |-> SeededUserId]},
             role |-> db.role \cup {"global:owner", "project:personalOwner"},
             settings |-> setOwnerSetUp(db.settings, "true")]

\* AddBrackettOwnerUser1762329600000.down: the personal project is looked up
\* through the project relations after these have been deleted.
down(db) ==
    LET apiKeys == {k \in db.user_api_keys : k.userId # SeededUserId}
        relations == {r \in db.project_relation : r.userId # SeededUserId}
        personalProject ==
            {p \in db.project :
                /\ p.type = "personal"
                /\ \E pr \in relations : pr.projectId = p.id /\ pr.userId = SeededUserId}
        projects ==
            IF personalProject # {}
            THEN db.project \ {CHOOSE p \in personalProject : TRUE}
            ELSE db.project
    IN [user |-> {u \in db.user : u.id # SeededUserId},
        project |-> projects,
        project_relation |-> relations,
        user_api_keys |-> apiKeys,
        role |-> db.role,
        settings |-> setOwnerSetUp(db.settings, "false")]

\* A database before the migration has run.
InitMigration ==
    /\ dbWorkflow = MkWorkflow(0, <<>>, {}, None, {}, TRUE)
    /\ InitRequest
    /\ sel = NoSelectorCall
    /\ bld = Unused /\ err = Unused /\ par = Unused /\ prov = Unused /\ mw = Unused
    /\ man = Unused
    /\ \E users \in {us \in SUBSET {SeededUser, SameEmailUser, OtherUser} :
                         ~(SeededUser \in us /\ SameEmailUser \in us)},
          withApiKey \in BOOLEAN,
          roles \in SUBSET {"global:owner", "project:personalOwner"},
          ownerSetUp \in {None, Some("false"), Some("true")} :
         /\ withApiKey => SeededUser \in users
         /\ mig = [pc |-> "ready",
                   db |-> MigrationDatabase(users, withApiKey, roles, ownerSetUp),
                   before |-> MigrationDatabase(users, withApiKey, roles, ownerSetUp),
                   runs |-> <<>>,
                   seeded |-> {}]

\* The migration runner applies the migration; the project ids up has seeded
\* are recorded.
MigrateUp ==
    /\ mig.pc = "ready"
    /\ Len(mig.runs) < MaxMigrationRuns
    /\ \E projectId \in NewProjectIds :
         /\ \A p \in mig.db.project : p.id # projectId
         /\ mig' = [mig EXCEPT
                      !.before = mig.db,
                      !.db = up(mig.db, projectId),
                      !.runs = Append(mig.runs, "up"),
                      !.seeded = IF up(mig.db, projectId) = mig.db THEN mig.seeded
                                 ELSE mig.seeded \cup {projectId}]
    /\ UNCHANGED <<orchestratorVars, sel, bld, err, par, prov, mw, man>>

\* The migration runner reverts the migration.
MigrateDown ==
    /\ mig.pc = "ready"
    /\ Len(mig.runs) < MaxMigrationRuns
    /\ mig' = [mig EXCEPT
                 !.before = mig.db,
                 !.db = down(mig.db),
                 !.runs = Append(mig.runs, "down")]
    /\ UNCHANGED <<orchestratorVars, sel, bld, err, par, prov, mw, man>>

NextMigration == MigrateUp \/ MigrateDown

SpecMigration == InitMigration /\ [][NextMigration]_vars

\* ------------------------------------------------------------------------
\* Properties
\* ------------------------------------------------------------------------

\* The node categories of the specification, by type.
ManualTriggerCategory == {ManualTriggerType}
WebhookCategory == {WebhookType, CustomWebhookType}
ActivatorCategory ==
    {ManualTriggerType, WebhookType, CustomWebhookType, ScheduleTriggerType}

IsActivator(node) == ~node.disabled /\ node.type \in ActivatorCategory

NodeNamesOf(w) == {w.nodes[i].name : i \in 1..Len(w.nodes)}

Called(c) == \E i \in 1..Len(calls) : calls[i] = c

ReqOptions == Val(req).options

\* The run data of the execution the request resumes from, if it has any.
PriorRunDataOfRequest ==
    IF TruthyStr(ReqOptions.executionId)
       /\ Val(ReqOptions.executionId) \in DOMAIN ExecutionStore
    THEN ExecutionStore[Val(ReqOptions.executionId)].runData
    ELSE None

\* The strategy of the request by the priority list: trigger data, then prior
\* run data with a destination node, then input data, else no input.
ExpectedStrategy ==
    IF ReqOptions.triggerData # None THEN "custom_trigger"
    ELSE IF PriorRunDataOfRequest # None /\ TruthyStr(ReqOptions.destinationNode)
    THEN "partial_resume"
    ELSE IF Val(req).inputData # None THEN "full_with_input"
    ELSE "full_without_input"

\* What tells the payload of each strategy from the others.
PayloadFitsStrategy ==
    payload # None =>
        LET p == Val(payload)
        IN CASE strategy = "custom_trigger" ->
                  /\ p.triggerToStartFrom =
                         Some([name |-> Val(ReqOptions.triggerData).triggerName])
                  /\ p.runData = None
             [] strategy = "partial_resume" ->
                  /\ p.runData # None
                  /\ p.triggerToStartFrom = None
                  /\ p.startNodes = None
             [] strategy = "full_with_input" ->
                  /\ p.triggerToStartFrom # None
                  /\ p.runData = None
                  /\ Val(Val(workflow).pinData)[Val(p.triggerToStartFrom).name]
                         = PinOf(Val(Val(req).inputData))
             [] OTHER ->
                  /\ p.triggerToStartFrom = None
                  /\ p.runData = None
                  /\ p.startNodes = None

\* C1: once the builder has run, the strategy it took is the first match of
\* the priority list (trigger data; prior run data and a non-empty destination
\* node; input data; none of these), and the payload is the one of that
\* strategy.
C1_StrategyByPriority ==
    strategy # "none" =>
        /\ strategy = ExpectedStrategy
        /\ PayloadFitsStrategy

\* A request with trigger data, a resumable execution, a destination node and
\* input data, built as a custom trigger.
C1_Witness ==
    /\ strategy = "custom_trigger"
    /\ payload # None
    /\ ReqOptions.executionId = Some("E1")
    /\ TruthyStr(ReqOptions.destinationNode)
    /\ Val(req).inputData # None

\* C2: when needsWebhook answered true the request ends as waiting with status
\* "waiting" and workflowRunner.run is not called; a response carries a status
\* only when needsWebhook answered true; a started response carries none.
C2_WaitingIffWebhookNeeded ==
    /\ webhookNeeded = Some(TRUE) =>
           /\ pc = "done"
           /\ outcome.kind = "waiting"
           /\ Val(outcome.result).status = Some("waiting")
           /\ runRequest = None
           /\ ~Called("run")
    /\ (outcome.result # None /\ Val(outcome.result).status # None) =>
           /\ Val(outcome.result).status = Some("waiting")
           /\ webhookNeeded = Some(TRUE)
    /\ outcome.kind = "started" => Val(outcome.result).status = None

C2_Witness ==
    /\ outcome.kind = "waiting"
    /\ webhookNeeded = Some(TRUE)
    /\ calls[Len(calls)] = "needsWebhook"

\* C3: every response of executeWorkflow carries a defined executionId, which
\* is the id of an execution that was created.
C3_ResponseHasExecutionId ==
    outcome.result # None =>
        /\ Val(outcome.result).executionId # None
        /\ Val(Val(outcome.result).executionId) \in executions

WorkflowMissing == Val(req).workflowId # dbWorkflow.id

ExecutionMissing ==
    /\ ~WorkflowMissing
    /\ TruthyStr(ReqOptions.executionId)
    /\ Val(ReqOptions.executionId) \notin DOMAIN ExecutionStore

NothingBuiltOrRun ==
    /\ ~Called("buildExecutionPayload")
    /\ ~Called("needsWebhook")
    /\ ~Called("run")
    /\ strategy = "none"
    /\ payload = None
    /\ runRequest = None

\* C4: a request whose workflow id does not resolve ends NotFound without the
\* execution store being queried; a request whose (non-empty) executionId does
\* not resolve ends NotFound; in both, the builder, the webhook check and the
\* run engine are never called.
C4_NotFound ==
    req # None =>
        /\ WorkflowMissing =>
               /\ pc \in {"loading_workflow", "done"}
               /\ pc = "done" =>
                      outcome = [kind |-> "not_found", error |-> "NotFound: workflow",
                                 result |-> None]
               /\ ~Called("findSingleExecution")
               /\ NothingBuiltOrRun
        /\ ExecutionMissing =>
               /\ pc \in {"loading_workflow", "loading_execution", "done"}
               /\ pc = "done" =>
                      outcome = [kind |-> "not_found", error |-> "NotFound: execution",
                                 result |-> None]
               /\ NothingBuiltOrRun

C4_Witness ==
    /\ pc = "done"
    /\ ExecutionMissing
    /\ outcome.kind = "not_found"
    /\ calls = <<"findOneBy", "findSingleExecution">>

UnknownTrigger ==
    /\ ~WorkflowMissing
    /\ ReqOptions.triggerData # None
    /\ Val(ReqOptions.triggerData).triggerName \notin NodeNamesOf(dbWorkflow)

\* C5: once the builder has run on a custom-trigger request naming no node of
\* the workflow, the request has ended BadRequest, the pin data of the
\* workflow object is that of the stored workflow, there is no payload, and
\* neither the webhook check nor the run engine is called.
C5_UnknownTriggerIsBadRequest ==
    (req # None /\ Called("buildExecutionPayload") /\ UnknownTrigger) =>
        /\ pc = "done"
        /\ outcome = [kind |-> "bad_request",
                      error |-> "BadRequest: trigger node not found", result |-> None]
        /\ Val(workflow).pinData = dbWorkflow.pinData
        /\ payload = None
        /\ ~Called("needsWebhook")
        /\ ~Called("run")
        /\ runRequest = None

C5_Witness ==
    /\ req # None
    /\ Called("buildExecutionPayload")
    /\ UnknownTrigger
    /\ outcome.kind = "bad_request"
    /\ dbWorkflow.pinData # None

NoActivator == \A i \in 1..Len(dbWorkflow.nodes) : ~IsActivator(dbWorkflow.nodes[i])

\* C6: once the builder has taken the full-execution-with-input strategy on a
\* workflow without any activator node, the request has ended BadRequest, the
\* pin data is that of the stored workflow, and neither the webhook check nor
\* the run engine is called.
C6_NoActivatorIsBadRequest ==
    (strategy = "full_with_input" /\ NoActivator) =>
        /\ pc = "done"
        /\ outcome = [kind |-> "bad_request",
                      error |-> "BadRequest: no trigger or webhook nodes",
                      result |-> None]
        /\ Val(workflow).pinData = dbWorkflow.pinData
        /\ payload = None
        /\ ~Called("needsWebhook")
        /\ ~Called("run")
        /\ runRequest = None

\* A workflow whose only trigger-like nodes are a disabled webhook and a
\* respondToWebhook node.
C6_Witness ==
    /\ strategy = "full_with_input"
    /\ NoActivator
    /\ outcome.kind = "bad_request"
    /\ Len(dbWorkflow.nodes) = 2
    /\ dbWorkflow.nodes[1].type = WebhookType
    /\ dbWorkflow.nodes[2].type = RespondToWebhookType

\* The start node by the priority of the specification: the first manual
\* trigger among the activators, else the first webhook, else the first
\* activator.
ExpectedStartNode ==
    LET activators == SelectSeq(dbWorkflow.nodes, IsActivator)
        manual == SelectSeq(activators, LAMBDA n : n.type \in ManualTriggerCategory)
        webhook == SelectSeq(activators, LAMBDA n : n.type \in WebhookCategory)
    IN IF Len(manual) > 0 THEN manual[1]
       ELSE IF Len(webhook) > 0 THEN webhook[1]
       ELSE activators[1]

\* C7: the payload of a full execution with input starts from the node chosen
\* by the priority manual trigger, webhook, first activator; the input is
\* pinned to that node and to no other; startNodes is the empty list.
C7_StartNodePriority ==
    (strategy = "full_with_input" /\ payload # None) =>
        LET start == ExpectedStartNode.name
            pins == Val(Val(workflow).pinData)
            input == PinOf(Val(Val(req).inputData))
        IN /\ Val(payload).triggerToStartFrom = Some([name |-> start])
           /\ Val(payload).startNodes = Some(<<>>)
           /\ \A n \in DOMAIN pins : (pins[n] = input) <=> (n = start)
           /\ start \in DOMAIN pins

\* A webhook first and a manual trigger second: the manual trigger is chosen.
C7_Witness ==
    /\ strategy = "full_with_input"
    /\ payload # None
    /\ Len(dbWorkflow.nodes) = 2
    /\ dbWorkflow.nodes[1].type = WebhookType
    /\ ~dbWorkflow.nodes[1].disabled
    /\ dbWorkflow.nodes[2].type = ManualTriggerType
    /\ Val(payload).triggerToStartFrom = Some([name |-> "B"])

\* The payload names a trigger to start from, and that node is an activator
\* of the workflow.
SyntheticActivatorResolved ==
    /\ payload # None
    /\ Val(payload).triggerToStartFrom # None
    /\ \E i \in 1..Len(dbWorkflow.nodes) :
           /\ dbWorkflow.nodes[i].name = Val(Val(payload).triggerToStartFrom).name
           /\ IsActivator(dbWorkflow.nodes[i])

\* C8: when the builder resolved a synthetic activator, the webhook check is
\* not consulted, and the request ends started, without status, the run
\* request starting from exactly that node.
C8_SyntheticActivatorStartsRun ==
    SyntheticActivatorResolved =>
        /\ ~Called("needsWebhook")
        /\ pc = "done" =>
               /\ outcome.kind = "started"
               /\ Val(outcome.result).status = None
               /\ Val(runRequest).startNodes =
                      Some(<<[name |-> Val(Val(payload).triggerToStartFrom).name,
                              sourceData |-> "null"]>>)

\* The pinned activators of a selector call that are ancestors of its
\* destination node.
PinnedActivatorAncestors ==
    LET w == Val(sel.workflow)
    IN {i \in 1..Len(w.nodes) :
            /\ IsActivator(w.nodes[i])
            /\ sel.pinData # None
            /\ w.nodes[i].name \in DOMAIN Val(sel.pinData)
            /\ w.nodes[i].name \in getParentNodes(w, Val(sel.destinationNode))}

\* C9: called with an empty start node list and a destination node that
\* descends from exactly one pinned activator, the selector returns that
\* activator.
C9_SingleAncestorActivator ==
    (/\ sel.pc = "returned"
     /\ sel.startNodes = Some(<<>>)
     /\ sel.destinationNode # None
     /\ Cardinality(PinnedActivatorAncestors) = 1) =>
        \E i \in PinnedActivatorAncestors : sel.result = Some(Val(sel.workflow).nodes[i])

\* The destination descends from one pinned activator, and another pinned
\* activator comes first in the tie-break order.
C9_Witness ==
    /\ sel.pc = "returned"
    /\ sel.startNodes = Some(<<>>)
    /\ sel.destinationNode # None
    /\ Cardinality(PinnedActivatorAncestors) = 1
    /\ sel.result # None
    /\ Val(sel.result) # findAllPinnedActivators(Val(sel.workflow), sel.pinData)[1]

\* The destination node of the request is a node of the workflow whose type
\* is in the trigger group.
DestinationIsTrigger ==
    \E i \in 1..Len(dbWorkflow.nodes) :
        /\ dbWorkflow.nodes[i].name = Val(ReqOptions.destinationNode)
        /\ dbWorkflow.nodes[i].type \in TriggerGroupTypes

PartialResumePayloadCarried ==
    LET p == Val(payload)
    IN /\ p.runData = PriorRunDataOfRequest
       /\ p.runData # None
       /\ p.destinationNode = ReqOptions.destinationNode
       /\ p.dirtyNodeNames = IF ReqOptions.dirtyNodes = None THEN Some(<<>>)
                             ELSE ReqOptions.dirtyNodes
       /\ p.startNodes = None
       /\ p.triggerToStartFrom = None

\* C10 as claimed: the payload of a partial resume carries the prior run data,
\* the destination node and the dirty nodes, without start nodes or trigger,
\* and the run engine receives that same run data, destination node and dirty
\* node names.
C10_RunEngineReceivesRunData ==
    strategy = "partial_resume" =>
        /\ PartialResumePayloadCarried
        /\ runRequest # None =>
               /\ Val(runRequest).runData = Val(payload).runData
               /\ Val(runRequest).destinationNode = Val(payload).destinationNode
               /\ Val(runRequest).dirtyNodeNames = Val(payload).dirtyNodeNames

\* C10 as amended: the run engine, when it is invoked, receives the same
\* destination node and dirty node names, and the same run data unless the
\* destination node is a trigger node of the workflow, in which case it
\* receives no run data.
C10_RunEngineReceivesRunDataUnlessTrigger ==
    strategy = "partial_resume" =>
        /\ PartialResumePayloadCarried
        /\ runRequest # None =>
               /\ Val(runRequest).runData =
                      IF DestinationIsTrigger THEN None ELSE Val(payload).runData
               /\ Val(runRequest).destinationNode = Val(payload).destinationNode
               /\ Val(runRequest).dirtyNodeNames = Val(payload).dirtyNodeNames
               /\ Val(runRequest).startNodes = None
               /\ Val(runRequest).triggerToStartFrom = None

C10_Witness ==
    /\ strategy = "partial_resume"
    /\ runRequest # None
    /\ ReqOptions.dirtyNodes = Some(<<"A">>)
    /\ Val(runRequest).runData = Some(PriorRunData)
    /\ Val(runRequest).dirtyNodeNames = Some(<<"A">>)

\* The pin data of a workflow object as a function of node names ({} when
\* the workflow has none).
PinsOf(w) == IF w.pinData = None THEN EmptyPinData ELSE Val(w.pinData)

\* C11: after a synthetic pin injection (custom trigger, or full execution
\* with input) the pin data of the workflow object differs from the pin data
\* of the stored workflow on the chosen start node only: every other node has
\* a pin after building iff it had one before, and the same one.
C11_OtherPinsUntouched ==
    (strategy \in {"custom_trigger", "full_with_input"} /\ payload # None) =>
        LET start == Val(Val(payload).triggerToStartFrom).name
            before == PinsOf(dbWorkflow)
            after == PinsOf(Val(workflow))
        IN /\ start \in DOMAIN after
           /\ (DOMAIN after) \ {start} = (DOMAIN before) \ {start}
           /\ \A n \in (DOMAIN before) \ {start} : after[n] = before[n]

\* The input is pinned to node B of a workflow whose node A carries a saved
\* pin.
C11_Witness ==
    /\ strategy \in {"custom_trigger", "full_with_input"}
    /\ payload # None
    /\ Val(Val(payload).triggerToStartFrom).name = "B"
    /\ "A" \in DOMAIN PinsOf(dbWorkflow)
    /\ PinsOf(Val(workflow))["A"] = SavedPin
    /\ PinsOf(Val(workflow))["B"] # SavedPin

\* C12: a destination node set in the payload the builder produced, or in
\* the run request handed to the run engine, names a node of the workflow.
C12_DestinationNodeExists ==
    /\ (payload # None /\ Val(payload).destinationNode # None) =>
           Val(Val(payload).destinationNode) \in NodeNamesOf(Val(workflow))
    /\ (runRequest # None /\ Val(runRequest).destinationNode # None) =>
           Val(Val(runRequest).destinationNode) \in NodeNamesOf(Val(runRequest).workflowData)

\* C13: the builder called a second time with the same arguments on the
\* workflow object the first call mutated takes the same strategy, throws the
\* same error or returns the same payload (triggerToStartFrom, startNodes,
\* destinationNode, runData, dirtyNodeNames), and leaves the same pin data.
C13_RebuildIsIdempotent ==
    bld.pc = "rebuilt" =>
        /\ Val(bld.second).strategy = Val(bld.first).strategy
        /\ Val(bld.second).error = Val(bld.first).error
        /\ Val(bld.second).payload = Val(bld.first).payload
        /\ Val(bld.second).workflowData.pinData = Val(bld.first).workflowData.pinData

\* The second call found a workflow object whose pin data the first call had
\* changed, on a node that carried a saved pin.
C13_Witness ==
    /\ bld.pc = "rebuilt"
    /\ Val(bld.first).error = "none"
    /\ Val(bld.first).workflowData.pinData # bld.workflow.pinData
    /\ bld.workflow.pinData # None
    /\ Val(Val(bld.first).payload).triggerToStartFrom # None
    /\ Val(Val(Val(bld.first).payload).triggerToStartFrom).name
           \in DOMAIN Val(bld.workflow.pinData)

\* A collaborator call of executeErrorWorkflow failed.
ErrCollaboratorFailed ==
    \E i \in 1..Len(err.log) :
        err.log[i] \in {"error: findOneBy", "error: generateFailedExecutionFromError",
                        "error: createNewExecution", "error: workflowRunner.run"}

\* C14: executeErrorWorkflow never throws to its caller: whichever
\* collaborator call failed (workflow lookup, policy check, creation of the
\* fake failed execution, run engine), it has logged and returns normally.
C14_NeverPropagates ==
    /\ err.result # "threw"
    /\ err.pc = "done" =>
           /\ err.result = "returned"
           /\ (ErrCollaboratorFailed \/ err.policy = "rejected") => Len(err.log) > 0

\* The run engine failed, and the operation returned after logging it.
C14_Witness ==
    /\ err.pc = "done"
    /\ err.result = "returned"
    /\ Len(err.runs) = 1
    /\ err.log = <<"error: workflowRunner.run">>

HasErrorTrigger ==
    /\ err.store # None
    /\ \E i \in 1..Len(Val(err.store).nodes) :
           Val(err.store).nodes[i].type = ErrorTriggerType

\* The run engine is invoked only for a found workflow that passed the policy
\* check and has an error trigger node, and then exactly once, in mode
\* 'error', with a stack holding an error trigger node of the workflow.
RunsOnlyFromErrorTrigger ==
    /\ Len(err.runs) <= 1
    /\ Len(err.runs) = 1 =>
           /\ err.store # None
           /\ err.policy = "ok"
           /\ HasErrorTrigger
           /\ err.runs[1].executionMode = "error"
           /\ Len(err.runs[1].nodeExecutionStack) = 1
           /\ err.runs[1].nodeExecutionStack[1].node.type = ErrorTriggerType
           /\ \E i \in 1..Len(Val(err.store).nodes) :
                  Val(err.store).nodes[i] = err.runs[1].nodeExecutionStack[1].node
    /\ (err.pc = "done" /\ err.policy = "ok" /\ HasErrorTrigger) => Len(err.runs) = 1

\* C16 as claimed: the run engine is invoked only for a found workflow that
\* passed the policy check and has an error trigger node, exactly once, in
\* mode 'error', seeded with that node; when the workflow is absent or has no
\* error trigger node, the run engine is not invoked and no execution record
\* is created.
C16_RunOnlyWithErrorTrigger ==
    /\ RunsOnlyFromErrorTrigger
    /\ (err.store = None \/ ~HasErrorTrigger) =>
           /\ err.runs = <<>>
           /\ err.created = <<>>

\* C16 as amended: the same, except that no execution record is created when
\* the workflow is absent, or when the policy check passed and the workflow
\* has no error trigger node (a rejected call records its failed execution
\* whether or not the workflow has an error trigger node).
C16_RunOnlyWithErrorTriggerAfterPolicy ==
    /\ RunsOnlyFromErrorTrigger
    /\ (err.store = None \/ ~HasErrorTrigger) => err.runs = <<>>
    /\ (err.store = None \/ (err.policy = "ok" /\ ~HasErrorTrigger)) =>
           err.created = <<>>

\* A workflow with two error trigger nodes ran once, from the second, with
\* the parent execution attached.
C16_Witness ==
    /\ err.pc = "done"
    /\ Len(err.runs) = 1
    /\ Len(Val(err.store).nodes) = 2
    /\ Val(err.store).nodes[1].type = ErrorTriggerType
    /\ err.runs[1].nodeExecutionStack[1].node.name = "B"
    /\ err.runs[1].nodeExecutionStack[1].parentExecution # None

\* What the builder makes of the stored workflow and the request of process
\* i alone.
BuiltAlone(i) ==
    buildExecutionPayload(dbWorkflow, Val(par.procs[i].req).inputData,
                          Val(par.procs[i].req).options, None, None)

\* C17: under any interleaving of two requests, each request has a workflow
\* object of its own; the payload, the pin data and the active flag of its
\* object, and its run request, are those the request would get from the
\* stored workflow alone, whatever the other request injected or deactivated.
C17_RequestsAreIsolated ==
    /\ \A i, j \in Procs :
           (i # j /\ par.procs[i].ref # 0) => par.procs[i].ref # par.procs[j].ref
    /\ \A i \in Procs :
           LET p == par.procs[i]
           IN /\ p.pc = "building" => par.heap[p.ref] = dbWorkflow
              /\ p.strategy # "none" =>
                     /\ p.strategy = BuiltAlone(i).strategy
                     /\ p.payload = BuiltAlone(i).payload
                     /\ par.heap[p.ref] =
                            [BuiltAlone(i).workflowData EXCEPT
                                !.active = (p.runRequest = None)]
              /\ p.runRequest # None =>
                     /\ Val(p.runRequest).workflowData = p.ref
                     /\ [Val(p.runRequest) EXCEPT !.workflowData = par.heap[p.ref]] =
                            manualRunRequest(BuiltAlone(i).workflowData, Val(p.payload))

\* Both requests loaded the workflow before either built; they injected pin
\* data on different nodes, and both were handed to the run engine.
C17_Witness ==
    /\ \A i \in Procs : par.procs[i].outcome = "started"
    /\ \A i \in Procs : par.procs[i].strategy \in {"custom_trigger", "full_with_input"}
    /\ Len(par.steps) = 6
    /\ par.steps[1][2] = "load" /\ par.steps[2][2] = "load"
    /\ par.steps[3] = <<1, "build">> /\ par.steps[4] = <<2, "build">>
    /\ Val(par.heap[par.procs[1].ref].pinData) # Val(par.heap[par.procs[2].ref].pinData)
    /\ Val(par.procs[1].payload).triggerToStartFrom
           # Val(par.procs[2].payload).triggerToStartFrom

\* C18: no two users created by provisionUser for different email addresses
\* have the same plaintext password.
C18_ProvisionedPasswordsDiffer ==
    \A i, j \in 1..Len(prov.users) :
        (/\ prov.users[i].provisioned
         /\ prov.users[j].provisioned
         /\ prov.users[i].email # prov.users[j].email) =>
            prov.users[i].password.plaintext # prov.users[j].password.plaintext

\* The key of the header belongs to a user who is not disabled, and it is a
\* legacy key or its JWT verifies.
KeyOfEnabledUser ==
    LET key == Val(mw.apiKeyHeader)
    IN /\ \E r \in ApiKeyRows :
              /\ r.apiKey = key
              /\ r.audience = "public-api"
              /\ ~mw.users[r.userId].disabled
       /\ startsWith(key, "n8n_api_") \/ key \in VerifiableJwts

\* The request went on, once, as the owner of the key.
PassedAsKeyOwner ==
    /\ mw.nextCalls = 1
    /\ mw.status = None
    /\ mw.user # None
    /\ \E r \in ApiKeyRows :
           r.apiKey = Val(mw.apiKeyHeader) /\ r.userId = Val(mw.user).id

\* The request was answered 401 and did not go on.
Rejected401 == mw.status = Some(401) /\ mw.nextCalls = 0 /\ mw.user = None

\* C19 as claimed: with the header present, the request ends with next()
\* called once as the owner of the key iff the key belongs to a user who is
\* not disabled and is a legacy key or verifies, and with 401 and no next()
\* otherwise, the cookie middleware never being tried; the cookie middleware
\* is tried only when the header is absent.
C19_ApiKeyAloneDecides ==
    /\ mw.nextCalls <= 1
    /\ (mw.pc = "done" /\ mw.apiKeyHeader # None) =>
           /\ ~mw.cookieAttempted
           /\ PassedAsKeyOwner <=> KeyOfEnabledUser
           /\ ~KeyOfEnabledUser => Rejected401
    /\ mw.cookieAttempted => mw.apiKeyHeader = None

\* C19 as amended: the same for a header that is present and not empty and a
\* user lookup that does not fail (a failed lookup is answered 401); the
\* cookie middleware is tried only when the header is absent or empty.
C19_NonEmptyApiKeyAloneDecides ==
    /\ mw.nextCalls <= 1
    /\ (mw.pc = "done" /\ TruthyStr(mw.apiKeyHeader)) =>
           /\ ~mw.cookieAttempted
           /\ PassedAsKeyOwner <=> (KeyOfEnabledUser /\ ~mw.lookupFailed)
           /\ ~(KeyOfEnabledUser /\ ~mw.lookupFailed) => Rejected401
    /\ mw.cookieAttempted => ~TruthyStr(mw.apiKeyHeader)
    /\ (mw.pc # "received" /\ ~TruthyStr(mw.apiKeyHeader)) => mw.cookieAttempted

\* A JWT key of an enabled user that does not verify was answered 401.
C19_Witness ==
    /\ mw.pc = "done"
    /\ mw.apiKeyHeader = Some("jwt.expired.1")
    /\ ~mw.users["u1"].disabled
    /\ ~mw.lookupFailed
    /\ Rejected401

\* The pinned activators of a selector call, as positions in the workflow.
SelPinnedActivators ==
    LET w == Val(sel.workflow)
    IN {i \in 1..Len(w.nodes) :
            /\ IsActivator(w.nodes[i])
            /\ sel.pinData # None
            /\ w.nodes[i].name \in DOMAIN Val(sel.pinData)}

\* The pinned activators the selector chooses among: those that are ancestors
\* of the destination node when one is given and has any, else all of them.
SelCandidates ==
    IF TruthyStr(sel.destinationNode) /\ PinnedActivatorAncestors # {}
    THEN PinnedActivatorAncestors
    ELSE SelPinnedActivators

\* The place of a node in the tie-break order the selector established.
TieBreakPlace(node) ==
    LET order == findAllPinnedActivators(Val(sel.workflow), sel.pinData)
    IN CHOOSE i \in 1..Len(order) : order[i] = node

\* C20: called with an empty start node list, the selector returns none when
\* the workflow has no pinned activator; otherwise it returns the first, in
\* tie-break order, of the pinned activators that are ancestors of the
\* destination node, or the first of all pinned activators when no destination
\* is given, the destination is unknown, or none of them is an ancestor; a
\* node whose type ends in "webhook" is preferred to one whose type does not.
C20_FullExecutionSelection ==
    (sel.pc = "returned" /\ sel.startNodes = Some(<<>>)) =>
        IF SelPinnedActivators = {} THEN sel.result = None
        ELSE LET w == Val(sel.workflow)
             IN /\ sel.result # None
                /\ \E i \in SelCandidates : w.nodes[i] = Val(sel.result)
                /\ \A i \in SelCandidates :
                       /\ TieBreakPlace(Val(sel.result)) <= TieBreakPlace(w.nodes[i])
                       /\ endsWith(w.nodes[i].type, "webhook")
                              => endsWith(Val(sel.result).type, "webhook")

\* The destination node is known but descends from none of two or more pinned
\* activators; the webhook among them, not the first node of the workflow, is
\* returned.
C20_Witness ==
    /\ sel.pc = "returned"
    /\ sel.startNodes = Some(<<>>)
    /\ TruthyStr(sel.destinationNode)
    /\ Val(sel.destinationNode) # UnknownNodeName
    /\ PinnedActivatorAncestors = {}
    /\ Cardinality(SelPinnedActivators) >= 2
    /\ sel.result # None
    /\ endsWith(Val(sel.result).type, "webhook")
    /\ Val(sel.result).name # "A"

\* The first pinned activator of a selector call in tie-break order.
SelFirstPinnedActivator ==
    findAllPinnedActivators(Val(sel.workflow), sel.pinData)[1]

\* The first start node of a selector call is itself a pinned activator.
SelStartNodeIsPinnedActivator ==
    \E i \in SelPinnedActivators :
        Val(sel.workflow).nodes[i].name = Val(sel.startNodes)[1]

SelStartNodeParents == getParentNodes(Val(sel.workflow), Val(sel.startNodes)[1])

SelPartialCall ==
    /\ sel.pc = "returned"
    /\ sel.startNodes # None
    /\ Len(Val(sel.startNodes)) > 0

\* C21 as claimed: in a partial execution only the first start node counts;
\* the first pinned activator in tie-break order is returned when it is an
\* ancestor of that start node; otherwise the start node is returned when it
\* is itself a pinned activator, whether or not it has ancestors; otherwise
\* none is returned.
C21_PartialExecutionSelection ==
    SelPartialCall =>
        IF SelPinnedActivators = {} THEN sel.result = None
        ELSE IF SelFirstPinnedActivator.name \in SelStartNodeParents
        THEN sel.result = Some(SelFirstPinnedActivator)
        ELSE IF SelStartNodeIsPinnedActivator
        THEN /\ sel.result # None
             /\ Val(sel.result).name = Val(sel.startNodes)[1]
        ELSE sel.result = None

\* C21 as amended: the start node is returned only when it has no ancestors
\* and is itself a pinned activator; a start node with ancestors none of which
\* is the first pinned activator yields none.
C21_PartialExecutionSelectionWithoutParents ==
    SelPartialCall =>
        IF SelPinnedActivators = {} THEN sel.result = None
        ELSE IF SelFirstPinnedActivator.name \in SelStartNodeParents
        THEN sel.result = Some(SelFirstPinnedActivator)
        ELSE IF SelStartNodeParents = {} /\ SelStartNodeIsPinnedActivator
        THEN /\ sel.result # None
             /\ Val(sel.result).name = Val(sel.startNodes)[1]
             /\ \E i \in SelPinnedActivators : Val(sel.workflow).nodes[i] = Val(sel.result)
        ELSE sel.result = None

\* Two start nodes: the first has no ancestors and is a pinned activator that
\* is not the first in tie-break order; it is returned, although the first
\* pinned activator is an ancestor of the second start node.
C21_Witness ==
    /\ SelPartialCall
    /\ Len(Val(sel.startNodes)) = 2
    /\ SelPinnedActivators # {}
    /\ SelStartNodeParents = {}
    /\ sel.result # None
    /\ Val(sel.result).name = Val(sel.startNodes)[1]
    /\ Val(sel.result) # SelFirstPinnedActivator
    /\ SelFirstPinnedActivator.name
           \in getParentNodes(Val(sel.workflow), Val(sel.startNodes)[2])

\* The list findAllPinnedActivators establishes for a selector call.
SelActivatorOrder == findAllPinnedActivators(Val(sel.workflow), sel.pinData)

\* The position of a node in the node list of the workflow of a selector call.
WorkflowPlace(node) ==
    CHOOSE i \in 1..Len(Val(sel.workflow).nodes) : Val(sel.workflow).nodes[i] = node

\* C22: findAllPinnedActivators returns exactly the non-disabled nodes with pin
\* data whose type ends, whatever the case, in "trigger" or "webhook" and is
\* not respondToWebhook, each once; every node whose type ends in "webhook"
\* precedes every other activator, and within each of the two groups the nodes
\* keep the order they have in the workflow.
C22_ActivatorsInWorkflowOrder ==
    sel.pc = "returned" =>
        LET w == Val(sel.workflow)
            order == SelActivatorOrder
        IN /\ {order[i] : i \in 1..Len(order)} = {w.nodes[i] : i \in SelPinnedActivators}
           /\ Len(order) = Cardinality(SelPinnedActivators)
           /\ \A i, j \in 1..Len(order) :
                i < j =>
                    /\ endsWith(order[j].type, "webhook") => endsWith(order[i].type, "webhook")
                    /\ (endsWith(order[i].type, "webhook") <=> endsWith(order[j].type, "webhook"))
                           => WorkflowPlace(order[i]) < WorkflowPlace(order[j])

\* The pinned activator executeManually computes for the payload it was given.
ComputedPinnedTrigger ==
    selectPinnedActivatorStarter(man.given, startNodeNames(man.payload.startNodes),
                                 man.given.pinData, man.payload.destinationNode)

\* A trigger to start from is supplied and is not the computed pinned activator.
OverrideDiffers ==
    /\ ComputedPinnedTrigger # None
    /\ man.payload.triggerToStartFrom # None
    /\ Val(ComputedPinnedTrigger).name # Val(man.payload.triggerToStartFrom).name

\* The start nodes of a run that starts from the computed pinned activator.
PinnedActivatorStart ==
    Some(<<[name |-> Val(ComputedPinnedTrigger).name, sourceData |-> "null"]>>)

\* C23: the run engine always receives triggerToStartFrom as supplied; when it
\* is supplied and differs from the computed pinned activator, startNodes is
\* handed over as supplied; otherwise, when there is a pinned activator without
\* an entry in the run data, startNodes is exactly that activator, and when
\* there is none or it has run data, startNodes is handed over as supplied.
C23_OverrideDiscardsPinnedActivator ==
    (man.pc = "returned" /\ man.data # None) =>
        LET data == Val(man.data)
        IN /\ data.triggerToStartFrom = man.payload.triggerToStartFrom
           /\ IF OverrideDiffers THEN data.startNodes = man.payload.startNodes
              ELSE IF /\ ComputedPinnedTrigger # None
                      /\ ~hasRunData(data.runData, Val(ComputedPinnedTrigger))
              THEN data.startNodes = PinnedActivatorStart
              ELSE data.startNodes = man.payload.startNodes

\* A run whose trigger to start from is not the computed pinned activator, the
\* latter having no run data: the start nodes are handed over as supplied and
\* are not the computed activator.
C23_Witness ==
    /\ man.pc = "returned"
    /\ man.data # None
    /\ OverrideDiffers
    /\ ~hasRunData(Val(man.data).runData, Val(ComputedPinnedTrigger))
    /\ Val(man.data).startNodes = man.payload.startNodes
    /\ Val(man.data).startNodes # PinnedActivatorStart
    /\ Val(man.data).triggerToStartFrom = man.payload.triggerToStartFrom

\* C24: whatever the active flag of the workflow executeManually is given,
\* the data it hands to the run engine has executionMode "manual" and a
\* workflow that is not active and is otherwise the workflow given; when it
\* returns waiting for a webhook, or has not yet handed over, the active flag
\* of the workflow object is the one given.
C24_ManualRunsAreNeverActive ==
    IF man.pc = "unused" THEN TRUE
    ELSE IF man.data # None
    THEN /\ Val(man.data).executionMode = "manual"
         /\ Val(man.data).workflowData.active = FALSE
         /\ Val(man.data).workflowData = [man.given EXCEPT !.active = FALSE]
         /\ man.workflowData = Val(man.data).workflowData
    ELSE /\ man.workflowData = man.given
         /\ (man.pc = "returned" => Val(man.result).waitingForWebhook)

\* An active workflow was run after the webhook check: the run engine got it
\* as not active.
C24_Witness ==
    /\ man.pc = "returned"
    /\ man.given.active
    /\ man.webhookCall # None
    /\ man.data # None
    /\ ~Val(man.data).workflowData.active
    /\ Val(man.data).executionMode = "manual"

\* The destination of a call of executeManually is a node of the workflow
\* whose type belongs to the trigger group.
ManualDestinationIsTrigger ==
    /\ man.payload.destinationNode # None
    /\ \E i \in 1..Len(man.given.nodes) :
         /\ man.given.nodes[i].name = Val(man.payload.destinationNode)
         /\ man.given.nodes[i].type \in TriggerGroupTypes

\* The run data the collaborators of executeManually are to see.
ManualExpectedRunData ==
    IF ManualDestinationIsTrigger THEN None ELSE man.payload.runData

\* C25: when the destination node exists and is of the trigger group, the
\* webhook check and the run engine both receive no run data, and the webhook
\* check is made whenever no pinned activator is kept; when the destination
\* is not a trigger or is not in the workflow, both receive the run data as
\* supplied; every call returns a result.
C25_TriggerDestinationDropsRunData ==
    /\ man.pc \notin {"unused", "called"} =>
         /\ man.webhookCall # None => Val(man.webhookCall).runData = ManualExpectedRunData
         /\ man.data # None => Val(man.data).runData = ManualExpectedRunData
         /\ (/\ ManualDestinationIsTrigger
             /\ (ComputedPinnedTrigger = None \/ OverrideDiffers)) => man.webhookCall # None
    /\ man.pc = "returned" =>
         /\ man.result # None
         /\ Val(man.result).waitingForWebhook \/ man.data # None

\* Run data was supplied together with start nodes and a trigger destination:
\* the webhook check was made, and it and the run engine saw no run data.
C25_Witness ==
    /\ man.pc = "returned"
    /\ ManualDestinationIsTrigger
    /\ man.payload.runData # None
    /\ man.payload.startNodes # None
    /\ Len(Val(man.payload.startNodes)) > 0
    /\ man.webhookCall # None
    /\ Val(man.webhookCall).runData = None
    /\ man.data # None
    /\ Val(man.data).runData = None

\* The collaborator calls of a request that runs to the run engine, in order:
\* the prior execution is loaded only for a non-empty execution id, and the
\* webhook check may or may not be made.
CallOrder(withWebhookCheck) ==
    <<"findOneBy">>
        \o (IF TruthyStr(ReqOptions.executionId) THEN <<"findSingleExecution">> ELSE <<>>)
        \o <<"buildExecutionPayload">>
        \o (IF withWebhookCheck THEN <<"needsWebhook">> ELSE <<>>)
        \o <<"run">>

IsPrefix(s, t) == Len(s) <= Len(t) /\ SubSeq(t, 1, Len(s)) = s

RunCalls == Cardinality({i \in 1..Len(calls) : calls[i] = "run"})

\* The calls made so far follow the order; there is an outcome exactly when
\* the request is over, and it is one of the four; the run engine was called
\* once if the outcome is started and never otherwise.
RequestFollowsOrder ==
    /\ req = None => calls = <<>>
    /\ req # None => \E withWebhookCheck \in BOOLEAN : IsPrefix(calls, CallOrder(withWebhookCheck))
    /\ pc = "done" <=> outcome.kind # "none"
    /\ outcome.kind \in {"none", "not_found", "bad_request", "waiting", "started"}
    /\ RunCalls = IF outcome.kind = "started" THEN 1 ELSE 0

\* Once the request is over, no collaborator is called and the outcome stays.
TerminalIsFinal ==
    pc = "done" => (calls' = calls /\ outcome' = outcome /\ pc' = pc)

\* C26: with collaborators that always return, every executeWorkflow request
\* ends with one outcome among not_found, bad_request, waiting and started;
\* its collaborator calls follow the order load workflow, load prior
\* execution (only for a given execution id), build payload, webhook check,
\* run engine; the run engine is called once when the outcome is started and
\* never otherwise; nothing is called after the outcome.
C26_RequestTerminatesInOrder ==
    /\ []RequestFollowsOrder
    /\ [][TerminalIsFinal]_vars
    /\ (req # None) ~> (pc = "done" /\ outcome.kind # "none")

\* A resumed request went through all five collaborators and was started.
C26_Witness ==
    /\ pc = "done"
    /\ outcome.kind = "started"
    /\ calls = <<"findOneBy", "findSingleExecution", "buildExecutionPayload",
                 "needsWebhook", "run">>

\* The rows of the seeded owner in the database of the migration.
SeededOwnerRows ==
    [user |-> {u \in mig.db.user : u.id = SeededUserId},
     project |-> {p \in mig.db.project : p.id \in mig.seeded},
     project_relation |-> {r \in mig.db.project_relation : r.userId = SeededUserId},
     user_api_keys |-> {k \in mig.db.user_api_keys : k.userId = SeededUserId}]

\* The last run of the migration was down.
JustReverted ==
    /\ mig.pc = "ready"
    /\ Len(mig.runs) > 0
    /\ mig.runs[Len(mig.runs)] = "down"

\* The last run of the migration was up on a database that held a user with
\* the seeded id or e-mail address.
JustSkipped ==
    /\ mig.pc = "ready"
    /\ Len(mig.runs) > 0
    /\ mig.runs[Len(mig.runs)] = "up"
    /\ \E u \in mig.before.user : u.id = SeededUserId \/ u.email = SeededUserEmail

\* C27: after down, the database holds no API key, no project relation and no
\* user of the seeded owner and no personal project that up created, and the
\* owner-setup flag is not set; up on a database that holds a user with the
\* seeded id or e-mail address leaves the database as it was.
C27_MigrationIsReversible ==
    /\ JustReverted =>
         /\ SeededOwnerRows.user_api_keys = {}
         /\ SeededOwnerRows.project_relation = {}
         /\ SeededOwnerRows.project = {}
         /\ SeededOwnerRows.user = {}
         /\ mig.db.settings # Some("true")
    /\ JustSkipped => mig.db = mig.before

====
